---- MODULE Spec2Model ----
(***************************************************************************)
(* Layout / pagination engine of the travel-itinerary PDF generator.       *)
(*                                                                         *)
(* Lengths are fixed-point numbers in hundredths of a PDF point, so that   *)
(* 841.89pt is 84189 and a line advance of 10 * 1.99 = 19.9pt is 1990.     *)
(*                                                                         *)
(* A text is a sequence of tokens: a positive number is a word (the number *)
(* is the word's width at the font size in use), 0 is the empty string     *)
(* between two adjacent blanks, NL is a line break.  The font collaborator *)
(* is additive: the width of a line is the sum of its words plus one blank *)
(* (SpaceW) between neighbours.                                            *)
(***************************************************************************)
EXTENDS Integers, Sequences, FiniteSets, TLC

\* ---------------------------------------------------------------- bounds
\* width of a blank of the body font
SpaceW == 300
\* a short word: two of them fit the narrow column, four the full width
WordS == 10000
\* a medium word: one fits the narrow column, two fit the full width
WordM == 20000
\* an unbroken word wider than every column
WordL == 50000
\* run lengths of the generated day texts
RunShort == 2
RunMid == 13
RunLong == 36
\* tokens of a raw text handed to the text primitives
MaxTextLen == 4
\* subheadings per day, days per itinerary, bullet items per list
MaxSubs == 2
MaxDays == 2
MaxItems == 3
\* pages a section adds while it paginates; days added to the form
MaxCont == 2
MaxAddedDays == 2
\* days of a request; checks of the validation a request fails
MaxReqDays == 2
MaxDefects == 2
\* hotels of an itinerary
MaxHotels == 9
\* days handed to distributeContentAcrossPages; lines of a long activities text
MaxDistDays == 3
LongTextLines == 60
\* days of an itinerary with images; their dayNumber fields are 1..MaxImgDays
MaxImgDays == 2

\* ------------------------------------------------------- program constants
PageHeight == 84189
PageMarginTop == 5000
DefaultMarginBottom == 5000
FooterMarginBottom == 6000
ContentWidth == 51528

HeaderSpacing == 4000
BarHeight == 2000
BarGap == 2500
TitleGap == 2000
LeftColumnWidth == 21600
RightColumnWidth == 22500
ColumnGap == 2600
ImageHeight == 22300
DayLineSpacing == 1990
SubTitleHeight == 1500
SubGap == 1500
MarkerGap == 2500
MidTextFloor == 8000
HotelGapBefore == 1000
HotelCheckHeight == 3000
HotelGapAfter == 1500
AfterContentGap == 3100
AfterDividerGap == 3500
VLineOverflowEndY == 6000
BulletCheckSlack == 2000
InclLineSpacing == 1650
InclItemSpacing == 1000
InclTitleSpacing == 6000
InclBulletSize == 600
InclInset == 4000
InclBulletIndent == 1500
TermsLineSpacing == 1968
TermsItemSpacing == 1800
TermsTitleSpacing == 7000
TermsBulletSize == 800
TermsBulletIndent == 3000
ExclGapBefore == 4000
ExclCheckHeight == 10000
\* renderStaysSection
ContentStartX == 4000
CardWidth == 25000
CardHeight == 30000
CardSpacing == 1500
StaysHeaderGap == 6000
StaysBottomMargin == 6000
SectionGap == 3000
\* renderFlightsSection, FlightInput
PageMarginBottom == 4000
MaxFlights == 10
FlightsTitleGap == 4500
FlightsTitleRowHeight == 3000
FlightsHeaderHeight == 2400
FlightsRowHeight == 7000
FlightsEndGap == 2500
\* distributeContentAcrossPages: PDF_CONFIG, SECTION_HEIGHTS, ITINERARY_CONFIG
LetterPageHeight == 79200
LetterMargin == 4000
HeaderSectionHeight == 8000
ClientInfoHeight == 12000
HotelSectionHeight == 15000
InclusionsSectionHeight == 20000
PricingSectionHeight == 3000
FooterSectionHeight == 5000
ItineraryHeaderSpace == 3000
Page1SafetyMargin == 2000
ContinuationGap == 2000
ContinuationSafetyMargin == 4000
MinDayHeight == 4000
DayPadding == 800
DaySpacing == 500
ActivitiesMaxLines == 8
ActivitiesLineHeight == 1430
\* calculateItineraryDayHeight
CalcHeaderHeight == 4500
CalcTitleHeight == 2000
CalcHotelHeight == 2500
CalcTextGap == 1000
CalcBottomSpacing == 6600

\* the line-break token of a raw text
NL == 0 - 1

FullTextWidth == LeftColumnWidth + ColumnGap + RightColumnWidth
TopY == PageHeight - PageMarginTop

\* ------------------------------------------------------------ text helpers
RECURSIVE SumSeq(_)
SumSeq(s) ==
  IF s = <<>> THEN 0 ELSE Head(s) + SumSeq(Tail(s))

\* font.widthOfTextAtSize of the words of l joined by single blanks
WidthOfText(l) ==
  IF l = <<>> THEN 0 ELSE SumSeq(l) + SpaceW * (Len(l) - 1)

OneWordDropped(word) == <<>>

\* the string made of one word; the empty word is the empty string <<>>
OneWord(word) ==
  IF word = 0 THEN <<>> ELSE <<word>>

\* currentLine ? `${currentLine} ${word}` : word
TestLine(currentLine, word) ==
  IF currentLine # <<>> THEN Append(currentLine, word) ELSE OneWord(word)

IsWord(t) == t > 0

\* sanitizeTextForPdf: line breaks become blanks, runs of blanks collapse,
\* the ends are trimmed; what is left is split on single blanks
SanitizedWords(text) ==
  LET kept == SelectSeq(text, IsWord)
  IN  IF kept = <<>> THEN <<0>> ELSE kept

\* text.split("\n") followed by paragraph.split(" ")
RECURSIVE SplitParagraphs(_, _, _)
SplitParagraphs(text, cur, acc) ==
  IF text = <<>>
  THEN Append(acc, IF cur = <<>> THEN <<0>> ELSE cur)
  ELSE IF Head(text) = NL
       THEN SplitParagraphs(Tail(text), <<>>,
                            Append(acc, IF cur = <<>> THEN <<0>> ELSE cur))
       ELSE SplitParagraphs(Tail(text), Append(cur, Head(text)), acc)

\* s.trim() === ""
IsBlank(words) == \A i \in 1..Len(words) : words[i] <= 0

RECURSIVE Flatten(_)
Flatten(ls) ==
  IF ls = <<>> THEN <<>> ELSE Head(ls) \o Flatten(Tail(ls))

\* ------------------------------------------------------ wrapping primitives
RECURSIVE DrawBuildLinesMeasuresCurrent(_, _, _, _, _)
DrawBuildLinesMeasuresCurrent(words, i, currentLine, lines, maxWidth) ==
  IF i > Len(words)
  THEN IF currentLine # <<>> THEN Append(lines, currentLine) ELSE lines
  ELSE LET word == words[i]
           testLine == TestLine(currentLine, word)
       IN  IF WidthOfText(currentLine) > maxWidth /\ currentLine # <<>>
           THEN DrawBuildLinesMeasuresCurrent(words, i + 1, OneWord(word),
                               Append(lines, currentLine), maxWidth)
           ELSE DrawBuildLinesMeasuresCurrent(words, i + 1, testLine, lines,
                                              maxWidth)

\* drawWrappedText, "Build lines": the greedy loop over the words
RECURSIVE DrawBuildLines(_, _, _, _, _)
DrawBuildLines(words, i, currentLine, lines, maxWidth) ==
  IF i > Len(words)
  THEN IF currentLine # <<>> THEN Append(lines, currentLine) ELSE lines
  ELSE LET word == words[i]
           testLine == TestLine(currentLine, word)
       IN  IF WidthOfText(testLine) > maxWidth /\ currentLine # <<>>
           THEN DrawBuildLines(words, i + 1, OneWord(word),
                               Append(lines, currentLine), maxWidth)
           ELSE DrawBuildLines(words, i + 1, testLine, lines, maxWidth)

\* drawWrappedText, "Draw lines": a line is skipped when a positive floor
\* minY lies above the cursor; a drawn line advances the cursor
RECURSIVE DrawLinesLoop(_, _, _, _, _, _)
DrawLinesLoop(lines, i, currentY, drawn, lineSpacing, minY) ==
  IF i > Len(lines)
  THEN [y |-> currentY, drawn |-> drawn]
  ELSE IF minY > 0 /\ currentY < minY
       THEN DrawLinesLoop(lines, i + 1, currentY, drawn, lineSpacing, minY)
       ELSE DrawLinesLoop(lines, i + 1, currentY - lineSpacing,
                          Append(drawn, [line |-> lines[i], y |-> currentY]),
                          lineSpacing, minY)

DrawLines(lines, currentY, lineSpacing, minY) ==
  DrawLinesLoop(lines, 1, currentY, <<>>, lineSpacing, minY)

\* drawWrappedText(page, text, x, y, maxWidth, font, fontSize, {lineHeight, minY})
\* with lineSpacing = fontSize * lineHeight: the final Y and the lines drawn
DrawWrappedText(text, y, maxWidth, lineSpacing, minY) ==
  DrawLines(DrawBuildLines(SanitizedWords(text), 1, <<>>, <<>>, maxWidth),
            y, lineSpacing, minY)

\* calculateWrappedTextHeight: its own copy of the greedy loop
RECURSIVE CalcBuildLines(_, _, _, _, _)
CalcBuildLines(words, i, currentLine, lines, maxWidth) ==
  IF i > Len(words)
  THEN IF currentLine # <<>> THEN Append(lines, currentLine) ELSE lines
  ELSE LET word == words[i]
           testLine == TestLine(currentLine, word)
       IN  IF WidthOfText(testLine) > maxWidth /\ currentLine # <<>>
           THEN CalcBuildLines(words, i + 1, OneWord(word),
                               Append(lines, currentLine), maxWidth)
           ELSE CalcBuildLines(words, i + 1, testLine, lines, maxWidth)

CalcLineCountNoLast(text, maxWidth) ==
  LET n == Len(CalcBuildLines(SanitizedWords(text), 1, <<>>, <<>>, maxWidth))
  IN  IF n > 1 THEN n - 1 ELSE n

CalcLineCount(text, maxWidth) ==
  Len(CalcBuildLines(SanitizedWords(text), 1, <<>>, <<>>, maxWidth))

\* calculateWrappedTextHeight(text, maxWidth, font, fontSize, lineHeight)
CalculateWrappedTextHeight(text, maxWidth, lineSpacing) ==
  CalcLineCount(text, maxWidth) * lineSpacing

\* wrapText, the loop over the words of one paragraph
RECURSIVE WrapParagraph(_, _, _, _, _)
WrapParagraph(words, i, currentLine, lines, maxWidth) ==
  IF i > Len(words)
  THEN IF currentLine # <<>> THEN Append(lines, currentLine) ELSE lines
  ELSE LET word == words[i]
           testLine == TestLine(currentLine, word)
       IN  IF WidthOfText(testLine) <= maxWidth
           THEN WrapParagraph(words, i + 1, testLine, lines, maxWidth)
           ELSE IF currentLine # <<>>
                THEN WrapParagraph(words, i + 1, OneWord(word),
                                   Append(lines, currentLine), maxWidth)
                ELSE WrapParagraph(words, i + 1, <<>>,
                                   Append(lines, OneWord(word)), maxWidth)

RECURSIVE WrapParagraphs(_, _, _)
WrapParagraphs(paragraphs, lines, maxWidth) ==
  IF paragraphs = <<>>
  THEN lines
  ELSE LET paragraph == Head(paragraphs)
       IN  IF IsBlank(paragraph)
           THEN WrapParagraphs(Tail(paragraphs), Append(lines, <<>>), maxWidth)
           ELSE WrapParagraphs(Tail(paragraphs),
                               WrapParagraph(paragraph, 1, <<>>, lines, maxWidth),
                               maxWidth)

\* wrapText(text, font, fontSize, maxWidth)
WrapText(text, maxWidth) ==
  IF IsBlank(text)
  THEN << <<>> >>
  ELSE WrapParagraphs(SplitParagraphs(text, <<>>, <<>>), <<>>, maxWidth)

\* ------------------------------------------------------------------ inputs
Run(count, width) == [i \in 1..count |-> width]

\* the sanitized day texts (activities, subheading descriptions): runs of one
\* word, a text with an unbroken word in its middle, and a text of blanks
DayTexts ==
  { Run(c, w) : c \in {1, RunShort, RunMid, RunLong}, w \in {WordS, WordM, WordL} }
    \cup { <<WordS, WordL, WordS>>, <<0, 0>> }

BulletTexts ==
  { Run(c, w) : c \in {1, RunShort, RunLong}, w \in {WordS, WordL} }

\* raw texts of the text primitives: blanks, words and line breaks
RawTexts ==
  UNION { [1..n -> {NL, 0, WordS, WordL}] : n \in 1..MaxTextLen }

TextWidths == {LeftColumnWidth, WordS}
TextMinYs == {0, FooterMarginBottom}
TextYs == {FooterMarginBottom - 1, FooterMarginBottom,
           FooterMarginBottom + DayLineSpacing, TopY}

\* ------------------------------------------------------------------- state
VARIABLES
  mode,         \* which entry point runs, one of Modes
  pc,           \* position in the running renderer
  numPages,     \* pdfDoc: number of pages of the document
  pmPage,       \* PageManager.currentPage, an index into the document
  pmY,          \* PageManager.currentY
  pmMB,         \* PageManager.marginBottom
  hasHook,      \* PageManager.onNewPage was supplied
  hookCalls,    \* number of onNewPage invocations
  hookPage,     \* page handed to the last onNewPage invocation
  reqH,         \* argument of the pending checkAndCreateNewPage
  ret,          \* result of the last checkAndCreateNewPage
  dayNo,        \* 1-based position of the day being rendered
  goldBarY, goldBarPage, imagePage, imageStartY,
  subIdx,       \* subheadings of the day rendered so far
  numSubs,      \* number of subheadings of the day
  words,        \* the text being measured / drawn
  wi,           \* renderTextWithDynamicWidth: index of the next word
  curLine,      \* renderTextWithDynamicWidth: currentLine
  rtwY,         \* renderTextWithDynamicWidth: currentY
  rtwFrom,      \* caller of renderTextWithDynamicWidth: "sub" or "act"
  measuredLines,\* lines pre-measured for the description
  drawnLines,   \* lines drawn for the description
  inked,        \* the words handed to drawText for the text, in order
  vlines,       \* segments of the accent rule drawn for the day
  list,         \* bullet section: "inclusions", "exclusions" or "terms"
  itemIdx,      \* bullet items drawn so far
  lastDraw,     \* the most recent draw call
  pageDraws,    \* kinds of draw calls made on the current page
  tText, tY, tMaxW, tMinY, tDraw, tCalc, tWrap,
  calcText,     \* calculateItineraryDayHeight: textHeight of the day so far
  dayImage,     \* the day being rendered has an image
  data,         \* generateItineraryPDF: which lists of the itinerary data are non-empty
  doc,          \* pdfDoc: the pages of the document, in order
  cont,         \* pages added by the pagination of the running section
  thrown,       \* the value thrown inside the try block
  result,       \* what generateItineraryPDF resolved or rejected with
  response,     \* the response of the POST handler
  slot,         \* embedAllImages: position in the list of images
  embedded,     \* images embedded into pdfDoc
  failed,       \* images whose embedding threw
  drawn,        \* images drawn on a page
  formDays,     \* TravelItineraryForm: formData.days
  nextKey,      \* content key of the next day added to the form
  formLog,      \* the last day operation of the form
  pricing,      \* formData.pricing / data.pricing
  rows,         \* renderPricingSection: the values of the four rows
  request,      \* POST: the parsed body of the request
  calls,        \* POST: the functions invoked so far, in order
  hotels,       \* renderStaysSection: number of hotels
  cardCount, cardX, cardY,
  stPage,       \* renderStaysSection: currentPage, counted from the first
  stHeaders,    \* pages on which "Our Stays" has been drawn
  cards,        \* the hotel cards drawn, in order
  stY,          \* renderStaysSection: the value returned
  flights,      \* renderFlightsSection: number of flights
  flRow,        \* data rows drawn so far
  flY,          \* renderFlightsSection: currentY
  flTable,      \* the rectangle of the table
  flRet,        \* renderFlightsSection: the value returned
  visibility,   \* formData: showFlights, showHotels, and whether the lists
                \* flights and hotels are non-empty
  posted,       \* the itineraryData of the request body
  sections,     \* the section renderers the generator has called
  dayHeights,   \* distributeContentAcrossPages: dayHeights
  dayIndex,     \* distributeContentAcrossPages: dayIndex
  currentPageNum,
  availableHeight,
  distY,        \* distributeContentAcrossPages: currentY
  creations,    \* pages started since the last day was placed
  placed,       \* the page of every day placed so far
  imgDays,      \* data.days: the dayNumber and the image field of every day
  imgIdx,       \* position in data.days of the running loop
  dayImages,    \* embedAllImages: the Map from dayNumber to embedded image
  renderedWith  \* the image handed to the renderer for every day

pmVars == <<numPages, pmPage, pmY, hookCalls, hookPage>>
dayVars == <<dayNo, goldBarY, goldBarPage, imagePage, imageStartY, subIdx,
             numSubs, vlines>>
rtwVars == <<words, wi, curLine, rtwY, rtwFrom, measuredLines, drawnLines>>
listVars == <<list, itemIdx>>
textVars == <<tText, tY, tMaxW, tMinY, tDraw, tCalc, tWrap>>
cfgVars == <<mode, pmMB, hasHook>>
calcVars == <<calcText, dayImage>>
layoutVars == <<pmMB, hasHook, pmVars, reqH, ret, dayVars, rtwVars, listVars,
                lastDraw, pageDraws, textVars, calcVars, inked>>
genVars == <<data, doc, cont, thrown>>
outVars == <<result, response>>
imgVars == <<slot, embedded, failed, drawn>>
formVars == <<formDays, nextKey, formLog, pricing, rows>>
reqVars == <<request, calls>>
staysVars == <<hotels, cardCount, cardX, cardY, stPage, stHeaders, cards, stY>>
flightVars == <<flights, flRow, flY, flTable, flRet>>
toggleVars == <<visibility, posted, sections>>
distVars == <<dayHeights, dayIndex, currentPageNum, availableHeight, distY,
             creations, placed>>
dayImgVars == <<imgDays, imgIdx, dayImages, renderedWith>>
notReqVars == <<staysVars, flightVars, toggleVars, distVars, dayImgVars>>
notStaysVars == <<reqVars, flightVars, toggleVars, distVars, dayImgVars>>
notFlightVars == <<reqVars, staysVars, toggleVars, distVars, dayImgVars>>
notToggleVars == <<reqVars, staysVars, flightVars, distVars, dayImgVars>>
notDistVars == <<reqVars, staysVars, flightVars, toggleVars, dayImgVars>>
notDayImgVars == <<reqVars, staysVars, flightVars, toggleVars, distVars>>
svcVars == <<reqVars, staysVars, flightVars, toggleVars, distVars,
             dayImgVars>>
appVars == <<genVars, outVars, imgVars, formVars, svcVars>>
vars == <<mode, pc, numPages, pmPage, pmY, pmMB, hasHook, hookCalls, hookPage,
          reqH, ret, dayNo, goldBarY, goldBarPage, imagePage, imageStartY,
          subIdx, numSubs, words, wi, curLine, rtwY, rtwFrom, measuredLines,
          drawnLines, vlines, list, itemIdx, lastDraw, pageDraws,
          tText, tY, tMaxW, tMinY, tDraw, tCalc, tWrap, calcText, dayImage,
          data, doc, cont, thrown, result, response, slot, embedded, failed,
          drawn, formDays, nextKey, formLog, pricing, rows, request, calls, hotels, cardCount, cardX,
          cardY, stPage, stHeaders, cards, stY, flights, flRow, flY, flTable,
          flRet, visibility, posted, sections, dayHeights, dayIndex,
          currentPageNum, availableHeight, distY, creations, placed,
          imgDays, imgIdx, dayImages, renderedWith, inked>>

NoDraw ==
  [kind |-> "none", page |-> 0, y |-> 0, cur |-> 0, first |-> FALSE,
   fits |-> FALSE, line |-> <<>>, limit |-> 0]

\* draw kinds that belong to the content of a unit
ContentKinds == {"badge", "daytitle", "subtitle", "line", "hotel", "bullet", "text"}

\* a draw call on the current page: what, where, the cursor at the call,
\* whether it is the first content drawn on the page, and whether the height
\* last handed to checkAndCreateNewPage fits below the cursor
DrawOnPage(kind, y, line, limit) ==
  /\ lastDraw' = [kind |-> kind, page |-> pmPage, y |-> y, cur |-> pmY,
                  first |-> (pageDraws \cap ContentKinds = {}),
                  fits |-> (pmY - reqH >= pmMB),
                  line |-> line, limit |-> limit]
  /\ pageDraws' = pageDraws \cup {kind}

\* ------------------------------------------------------------- PageManager
\* checkAndCreateNewPage: this.currentY - requiredHeight < this.marginBottom
WouldOverflowPastPageEnd(currentY, requiredHeight, marginBottom) ==
  currentY - requiredHeight < 0

WouldOverflow(currentY, requiredHeight, marginBottom) ==
  currentY - requiredHeight < marginBottom

\* createNewPage: this.currentY = this.pageHeight - this.marginTop
NewPageYNoMargin == PageHeight

NewPageY == PageHeight - PageMarginTop

\* createNewPage: addPage, drawPageBackground, reset the cursor, run the hook
CreateNewPageEffect ==
  /\ numPages' = numPages + 1
  /\ pmPage' = numPages + 1
  /\ pmY' = NewPageY
  /\ hookCalls' = IF hasHook THEN hookCalls + 1 ELSE hookCalls
  /\ hookPage' = IF hasHook THEN numPages + 1 ELSE hookPage
  /\ pageDraws' = {}

CheckPcs == {"sub_check", "hotel_check", "bl_check", "excl_check"}

AfterCheck(p, created) ==
  CASE p = "sub_check"   -> IF created THEN "sub_header" ELSE "sub_title"
    [] p = "hotel_check" -> IF created THEN "hotel_header" ELSE "hotel_draw"
    [] p = "bl_check"    -> IF created THEN "bl_title" ELSE "bl_bullet"
    [] p = "excl_check"  -> "bl_head"

\* PageManager.checkAndCreateNewPage(reqH)
CheckAndCreateNewPage ==
  /\ pc \in CheckPcs
  /\ IF WouldOverflow(pmY, reqH, pmMB)
     THEN /\ CreateNewPageEffect
          /\ ret' = TRUE
     ELSE /\ ret' = FALSE
          /\ UNCHANGED <<pmVars, pageDraws>>
  /\ pc' = AfterCheck(pc, ret')
  /\ UNCHANGED <<cfgVars, reqH, dayVars, rtwVars, listVars, lastDraw, textVars>>
  /\ UNCHANGED calcVars
  /\ UNCHANGED inked
  /\ UNCHANGED appVars

\* PageManager.createNewPage() called directly: at the start of every day but
\* the first, and inside renderTextWithDynamicWidth once the cursor is below 80
CreateNewPage ==
  /\ pc \in {"day_newpage", "rtw_newpage"}
  /\ CreateNewPageEffect
  /\ rtwY' = IF pc = "rtw_newpage" THEN NewPageY ELSE rtwY
  /\ pc' = IF pc = "rtw_newpage" THEN "rtw_word" ELSE "day_header"
  /\ UNCHANGED <<cfgVars, reqH, ret, dayVars, words, wi, curLine, rtwFrom,
                 measuredLines, drawnLines, listVars, lastDraw, textVars>>
  /\ UNCHANGED calcVars
  /\ UNCHANGED inked
  /\ UNCHANGED appVars

\* ------------------------------------------------------- itinerary renderer
\* drawItineraryHeader: "Itinerary" at the cursor, then moveDown(40)
DrawHeader ==
  /\ pc \in {"itin_header", "day_header", "sub_header", "hotel_header"}
  /\ DrawOnPage("header", pmY, <<>>, 0)
  /\ pmY' = pmY - HeaderSpacing
  /\ pc' = CASE pc = "itin_header"  -> "day_bar"
             [] pc = "day_header"   -> "day_bar"
             [] pc = "sub_header"   -> "sub_marker"
             [] pc = "hotel_header" -> "hotel_draw"
  /\ UNCHANGED <<cfgVars, numPages, pmPage, hookCalls, hookPage, reqH, ret,
                 dayVars, rtwVars, listVars, textVars>>
  /\ UNCHANGED calcVars
  /\ UNCHANGED inked
  /\ UNCHANGED appVars

\* renderPaginatedItineraryDay: gold bar and "Day N" badge, moveDown(45)
DayDrawBar ==
  /\ pc = "day_bar"
  /\ goldBarY' = pmY - BarHeight
  /\ goldBarPage' = pmPage
  /\ DrawOnPage("badge", pmY - BarHeight, <<>>, 0)
  /\ pmY' = pmY - (BarHeight + BarGap)
  /\ imagePage' = pmPage
  /\ imageStartY' = pmY'
  /\ vlines' = {}
  /\ pc' = "day_title"
  /\ UNCHANGED <<cfgVars, numPages, pmPage, hookCalls, hookPage, reqH, ret,
                 dayNo, subIdx, numSubs, rtwVars, listVars, textVars>>
  /\ UNCHANGED calcVars
  /\ UNCHANGED inked
  /\ UNCHANGED appVars

ImageBottomY == imageStartY - ImageHeight

\* day title, moveDown(20); then the day's shape is read: subheadings,
\* flat activities, or neither
DayDrawTitle ==
  /\ pc = "day_title"
  /\ DrawOnPage("daytitle", pmY, <<>>, 0)
  /\ pmY' = pmY - TitleGap
  /\ subIdx' = 0
  /\ \E n \in 0..MaxSubs, act \in BOOLEAN :
       /\ numSubs' = n
       /\ pc' = IF n > 0 THEN "sub_measure"
                ELSE IF act THEN "act_text" ELSE "day_after_text"
  /\ UNCHANGED <<cfgVars, numPages, pmPage, hookCalls, hookPage, reqH, ret,
                 dayNo, goldBarY, goldBarPage, imagePage, imageStartY, vlines,
                 rtwVars, listVars, textVars>>
  /\ UNCHANGED calcVars
  /\ UNCHANGED inked
  /\ UNCHANGED appVars

\* the first day of an itinerary is also measured by
\* calculateItineraryDayHeight, for comparison with what its rendering consumes
Measured == mode = "dayheight"

\* calculateItineraryDayHeight, lines 133-141 and 153-161: the line count of
\* a text, every word measured with a trailing blank against the left column
RECURSIVE CalcDayLineCount(_, _, _, _)
CalcDayLineCount(ws, i, lineCount, currentLineWidth) ==
  IF i > Len(ws)
  THEN lineCount
  ELSE LET wordWidth == WidthOfText(OneWord(ws[i])) + SpaceW
       IN  IF currentLineWidth + wordWidth > LeftColumnWidth
           THEN CalcDayLineCount(ws, i + 1, lineCount + 1, wordWidth)
           ELSE CalcDayLineCount(ws, i + 1, lineCount,
                                 currentLineWidth + wordWidth)

\* lines 124-145: title 15, the lines of the description, 15 after
CalcSubheadingHeight(hasDesc, text) ==
  SubTitleHeight
    + (IF hasDesc THEN CalcDayLineCount(text, 1, 1, 0) * DayLineSpacing ELSE 0)
    + SubGap

\* lines 115-177, given the text height summed over the subheadings or the
\* activities and the hotel line
CalcContentHeight(textHeight, hasImage) ==
  LET t == textHeight + CalcTextGap
      i == IF hasImage THEN ImageHeight ELSE 0
  IN  IF t > i THEN t ELSE i

CalculateItineraryDayHeight(textHeight, hasImage) ==
  CalcHeaderHeight + CalcTitleHeight + CalcContentHeight(textHeight, hasImage)
    + CalcBottomSpacing

\* getCurrentTextWidth(), lines 548-555
GetCurrentTextWidth(page, y, imgPage, imgBottomY) ==
  IF page = imgPage /\ y > imgBottomY THEN LeftColumnWidth ELSE FullTextWidth

\* subheading loop, lines 560-574: the height of the block is measured at the
\* width that holds at the cursor before the block
SubMeasure ==
  /\ pc = "sub_measure"
  /\ \E hasDesc \in BOOLEAN, text \in DayTexts :
       LET currentTextWidth ==
             GetCurrentTextWidth(pmPage, pmY, imagePage, ImageBottomY)
           descHeight ==
             IF hasDesc
             THEN CalculateWrappedTextHeight(text, currentTextWidth, DayLineSpacing)
             ELSE 0
       IN  /\ words' = IF hasDesc THEN SanitizedWords(text) ELSE <<>>
           /\ rtwFrom' = IF hasDesc THEN "sub" ELSE "none"
           /\ measuredLines' = descHeight \div DayLineSpacing
           /\ reqH' = SubTitleHeight + descHeight + SubGap
           /\ calcText' = IF Measured
                          THEN calcText + CalcSubheadingHeight(hasDesc, text)
                          ELSE calcText
  /\ UNCHANGED dayImage
  /\ drawnLines' = 0
  /\ pc' = "sub_check"
  /\ UNCHANGED <<cfgVars, pmVars, ret, dayVars, wi, curLine, rtwY, listVars,
                 lastDraw, pageDraws, textVars>>
  /\ UNCHANGED inked
  /\ UNCHANGED appVars

\* "Day N (continued)" after a pre-check page break, moveDown(25)
SubMarker ==
  /\ pc = "sub_marker"
  /\ DrawOnPage("marker", pmY, <<>>, 0)
  /\ pmY' = pmY - MarkerGap
  /\ pc' = "sub_title"
  /\ UNCHANGED <<cfgVars, numPages, pmPage, hookCalls, hookPage, reqH, ret,
                 dayVars, rtwVars, listVars, textVars>>
  /\ UNCHANGED calcVars
  /\ UNCHANGED inked
  /\ UNCHANGED appVars

\* subheading title, moveDown(15); then the description, if any, is handed to
\* renderTextWithDynamicWidth, which starts at the cursor with an empty line
SubTitle ==
  /\ pc = "sub_title"
  /\ DrawOnPage("subtitle", pmY, <<>>, 0)
  /\ pmY' = pmY - SubTitleHeight
  /\ IF rtwFrom = "sub"
     THEN /\ pc' = "rtw_word"
          /\ wi' = 1
          /\ curLine' = <<>>
          /\ rtwY' = pmY'
     ELSE /\ pc' = "sub_end"
          /\ UNCHANGED <<wi, curLine, rtwY>>
  /\ UNCHANGED <<cfgVars, numPages, pmPage, hookCalls, hookPage, reqH, ret,
                 dayVars, words, rtwFrom, measuredLines, drawnLines, listVars,
                 textVars>>
  /\ UNCHANGED calcVars
  /\ UNCHANGED inked
  /\ UNCHANGED appVars

\* flat activities: sanitized, then renderTextWithDynamicWidth
ActText ==
  /\ pc = "act_text"
  /\ \E text \in DayTexts :
       /\ words' = SanitizedWords(text)
       /\ calcText' = IF Measured
                      THEN CalcDayLineCount(text, 1, 1, 0) * DayLineSpacing
                      ELSE calcText
  /\ UNCHANGED dayImage
  /\ rtwFrom' = "act"
  /\ wi' = 1
  /\ curLine' = <<>>
  /\ rtwY' = pmY
  /\ measuredLines' = 0
  /\ drawnLines' = 0
  /\ pc' = "rtw_word"
  /\ UNCHANGED <<cfgVars, pmVars, reqH, ret, dayVars, listVars, lastDraw,
                 pageDraws, textVars>>
  /\ UNCHANGED inked
  /\ UNCHANGED appVars

RtwWidthFull(page, currentY, imgPage, imgBottomY) == FullTextWidth

\* renderTextWithDynamicWidth, lines 416-417: the width budget of the word
RtwWidth(page, currentY, imgPage, imgBottomY) ==
  IF page = imgPage /\ currentY > imgBottomY THEN LeftColumnWidth ELSE FullTextWidth

\* renderTextWithDynamicWidth, line 439: if (currentY < 80)
RtwNeedsPage(currentY) == currentY < MidTextFloor

\* renderTextWithDynamicWidth: one iteration of the loop over the words
RtwWord ==
  /\ pc = "rtw_word"
  /\ wi <= Len(words)
  /\ LET word == words[wi]
         currentWidth == RtwWidth(pmPage, rtwY, imagePage, ImageBottomY)
         testLine == TestLine(curLine, word)
     IN  IF WidthOfText(testLine) > currentWidth /\ curLine # <<>>
         THEN /\ DrawOnPage("line", rtwY, curLine, currentWidth)
              /\ rtwY' = rtwY - DayLineSpacing
              /\ pmY' = rtwY'
              /\ curLine' = OneWord(word)
              /\ drawnLines' = drawnLines + 1
              /\ inked' = inked \o curLine
              /\ pc' = IF RtwNeedsPage(rtwY') THEN "rtw_newpage" ELSE "rtw_word"
         ELSE /\ curLine' = testLine
              /\ UNCHANGED <<rtwY, pmY, drawnLines, lastDraw, pageDraws, pc,
                             inked>>
  /\ wi' = wi + 1
  /\ UNCHANGED <<cfgVars, numPages, pmPage, hookCalls, hookPage, reqH, ret,
                 dayVars, words, rtwFrom, measuredLines, listVars, textVars>>
  /\ UNCHANGED calcVars
  /\ UNCHANGED appVars

\* renderTextWithDynamicWidth after the loop: the remaining line is drawn and
\* the final Y returned; the caller stores it with setY
RtwFinish ==
  /\ pc = "rtw_word"
  /\ wi > Len(words)
  /\ IF curLine # <<>>
     THEN /\ DrawOnPage("line", rtwY, curLine,
                        RtwWidth(pmPage, rtwY, imagePage, ImageBottomY))
          /\ rtwY' = rtwY - DayLineSpacing
          /\ drawnLines' = drawnLines + 1
          /\ inked' = inked \o curLine
     ELSE UNCHANGED <<rtwY, drawnLines, lastDraw, pageDraws, inked>>
  /\ pmY' = rtwY'
  /\ curLine' = <<>>
  /\ pc' = IF rtwFrom = "sub" THEN "sub_end" ELSE "day_after_text"
  /\ UNCHANGED <<cfgVars, numPages, pmPage, hookCalls, hookPage, reqH, ret,
                 dayVars, words, wi, rtwFrom, measuredLines, listVars, textVars>>
  /\ UNCHANGED calcVars
  /\ UNCHANGED appVars

\* end of a subheading block: moveDown(15), next subheading or the hotel line
SubEnd ==
  /\ pc = "sub_end"
  /\ pmY' = pmY - SubGap
  /\ subIdx' = subIdx + 1
  /\ pc' = IF subIdx + 1 < numSubs THEN "sub_measure" ELSE "day_after_text"
  /\ words' = <<>>
  /\ wi' = 0
  /\ rtwY' = 0
  /\ rtwFrom' = "none"
  /\ measuredLines' = 0
  /\ drawnLines' = 0
  /\ UNCHANGED <<cfgVars, numPages, pmPage, hookCalls, hookPage, reqH, ret,
                 dayNo, goldBarY, goldBarPage, imagePage, imageStartY, numSubs,
                 vlines, curLine, listVars, lastDraw, pageDraws, textVars>>
  /\ UNCHANGED calcVars
  /\ inked' = <<>>
  /\ UNCHANGED appVars

\* moveDown(10) before the hotel line; the day may or may not name a hotel
DayAfterText ==
  /\ pc = "day_after_text"
  /\ pmY' = pmY - HotelGapBefore
  /\ \E hotel \in BOOLEAN :
       /\ IF hotel
          THEN pc' = "hotel_check" /\ reqH' = HotelCheckHeight
          ELSE pc' = "day_image" /\ UNCHANGED reqH
       /\ calcText' = IF Measured /\ hotel THEN calcText + CalcHotelHeight
                      ELSE calcText
  /\ UNCHANGED dayImage
  /\ words' = <<>>
  /\ wi' = 0
  /\ rtwY' = 0
  /\ rtwFrom' = "none"
  /\ measuredLines' = 0
  /\ drawnLines' = 0
  /\ UNCHANGED <<cfgVars, numPages, pmPage, hookCalls, hookPage, ret, dayVars,
                 curLine, listVars, lastDraw, pageDraws, textVars>>
  /\ inked' = <<>>
  /\ UNCHANGED appVars

\* hotel name line, moveDown(15)
HotelDraw ==
  /\ pc = "hotel_draw"
  /\ DrawOnPage("hotel", pmY, <<>>, 0)
  /\ pmY' = pmY - HotelGapAfter
  /\ pc' = "day_image"
  /\ UNCHANGED <<cfgVars, numPages, pmPage, hookCalls, hookPage, reqH, ret,
                 dayVars, rtwVars, listVars, textVars>>
  /\ UNCHANGED calcVars
  /\ UNCHANGED inked
  /\ UNCHANGED appVars

BelowImageUnguarded(page, y, imgPage, imgBottomY) ==
  IF page = imgPage THEN imgBottomY ELSE y

\* lines 677-680: setY(imageBottomY) when the cursor is still beside the image
BelowImage(page, y, imgPage, imgBottomY) ==
  IF page = imgPage /\ y > imgBottomY THEN imgBottomY ELSE y

\* lines 659-682: the image is drawn on the page where the day started, the
\* cursor is pushed below the image box when still beside it, moveDown(31)
DayImage ==
  /\ pc = "day_image"
  /\ \E image \in BOOLEAN :
       /\ lastDraw' = IF image
                      THEN [NoDraw EXCEPT !.kind = "image", !.page = imagePage,
                                          !.y = imageStartY, !.cur = pmY]
                      ELSE lastDraw
       /\ dayImage' = (Measured /\ image)
  /\ UNCHANGED calcText
  /\ pmY' = BelowImage(pmPage, pmY, imagePage, ImageBottomY) - AfterContentGap
  /\ pc' = "day_divider"
  /\ UNCHANGED <<cfgVars, numPages, pmPage, hookCalls, hookPage, reqH, ret,
                 dayVars, rtwVars, listVars, pageDraws, textVars>>
  /\ UNCHANGED inked
  /\ UNCHANGED appVars

\* horizontal divider for every day but the last, moveDown(35).  Whether the
\* day is the last of data.days is read here; the list holds 1..MaxDays days
DayDivider ==
  /\ pc = "day_divider"
  /\ \E isLastDay \in BOOLEAN :
       /\ dayNo = MaxDays => isLastDay
       /\ IF isLastDay
          THEN /\ UNCHANGED <<lastDraw, pageDraws>>
               /\ pc' = "day_vline_last"
          ELSE /\ DrawOnPage("divider", pmY, <<>>, 0)
               /\ pc' = "day_vline"
  /\ pmY' = pmY - AfterDividerGap
  /\ UNCHANGED <<cfgVars, numPages, pmPage, hookCalls, hookPage, reqH, ret,
                 dayVars, rtwVars, listVars, textVars>>
  /\ UNCHANGED calcVars
  /\ UNCHANGED inked
  /\ UNCHANGED appVars

\* lines 698-715: the vertical gold line, one drawLine on the gold bar's page
VerticalLineEndY ==
  IF pmPage = goldBarPage THEN pmY + AfterDividerGap ELSE VLineOverflowEndY

DayVerticalLine ==
  /\ pc \in {"day_vline", "day_vline_last"}
  /\ vlines' = vlines \cup
       {[page |-> goldBarPage, from |-> goldBarY, to |-> VerticalLineEndY]}
  /\ lastDraw' = [NoDraw EXCEPT !.kind = "vline", !.page = goldBarPage,
                                !.y = VerticalLineEndY, !.cur = pmY]
  /\ pc' = IF pc = "day_vline_last" THEN "day_done_last" ELSE "day_done"
  /\ UNCHANGED <<cfgVars, pmVars, reqH, ret, dayNo, goldBarY, goldBarPage,
                 imagePage, imageStartY, subIdx, numSubs, rtwVars, listVars,
                 pageDraws, textVars>>
  /\ UNCHANGED calcVars
  /\ UNCHANGED inked
  /\ UNCHANGED appVars

\* the loop over data.days in generateItineraryPDF: the next day, or the end
NextDay ==
  /\ pc \in {"day_done", "day_done_last"}
  /\ IF pc = "day_done" /\ ~Measured
     THEN /\ dayNo' = dayNo + 1
          /\ pc' = "day_newpage"
     ELSE /\ pc' = "done"
          /\ UNCHANGED dayNo
  /\ calcText' = 0
  /\ dayImage' = FALSE
  /\ UNCHANGED <<cfgVars, pmVars, reqH, ret, goldBarY, goldBarPage, imagePage,
                 imageStartY, subIdx, numSubs, vlines, rtwVars, listVars,
                 lastDraw, pageDraws, textVars>>
  /\ UNCHANGED inked
  /\ UNCHANGED appVars

\* ----------------------------------------------------- bullet list sections
\* the options generateItineraryPDF hands to drawPaginatedBulletList
LineSpacingOf(l) == IF l = "terms" THEN TermsLineSpacing ELSE InclLineSpacing
ItemSpacingOf(l) == IF l = "terms" THEN TermsItemSpacing ELSE InclItemSpacing
TitleSpacingOf(l) == IF l = "terms" THEN TermsTitleSpacing ELSE InclTitleSpacing
BulletSizeOf(l) == IF l = "terms" THEN TermsBulletSize ELSE InclBulletSize
TextMaxWidthOf(l) ==
  IF l = "terms"
  THEN ContentWidth - TermsBulletIndent
  ELSE ContentWidth - InclInset - InclBulletIndent

\* generateItineraryPDF: a section is rendered when its list is not empty;
\* exclusions first ask for room for their header
ListSection ==
  /\ pc = "bl_section"
  /\ \E nonEmpty \in BOOLEAN :
       IF nonEmpty
       THEN IF list = "exclusions"
            THEN pc' = "excl_check" /\ reqH' = ExclCheckHeight
            ELSE pc' = "bl_head" /\ UNCHANGED reqH
       ELSE pc' = "bl_after" /\ UNCHANGED reqH
  /\ UNCHANGED <<cfgVars, pmVars, ret, dayVars, rtwVars, listVars, lastDraw,
                 pageDraws, textVars>>
  /\ UNCHANGED calcVars
  /\ UNCHANGED inked
  /\ UNCHANGED appVars

\* the section header, then moveDown(60) (70 for the terms)
ListHead ==
  /\ pc = "bl_head"
  /\ DrawOnPage("listhead", pmY, <<>>, 0)
  /\ pmY' = pmY - TitleSpacingOf(list)
  /\ itemIdx' = 0
  /\ pc' = "bl_measure"
  /\ UNCHANGED <<cfgVars, numPages, pmPage, hookCalls, hookPage, reqH, ret,
                 dayVars, rtwVars, list, textVars>>
  /\ UNCHANGED calcVars
  /\ UNCHANGED inked
  /\ UNCHANGED appVars

\* drawPaginatedBulletList, lines 548-559: the item is measured and
\* itemHeight + 20 handed to checkAndCreateNewPage
BulletRequired(text, l) ==
  CalculateWrappedTextHeight(text, TextMaxWidthOf(l), LineSpacingOf(l))
    + ItemSpacingOf(l) + BulletCheckSlack

ListMeasure ==
  /\ pc = "bl_measure"
  /\ \E text \in BulletTexts :
       /\ words' = text
       /\ reqH' = BulletRequired(text, list)
  /\ pc' = "bl_check"
  /\ UNCHANGED <<cfgVars, pmVars, ret, dayVars, wi, curLine, rtwY, rtwFrom,
                 measuredLines, drawnLines, listVars, lastDraw, pageDraws,
                 textVars>>
  /\ UNCHANGED calcVars
  /\ inked' = <<>>
  /\ UNCHANGED appVars

\* lines 562-571: the section title redrawn on a new page, moveDown(titleSpacing)
ListTitle ==
  /\ pc = "bl_title"
  /\ DrawOnPage("listtitle", pmY, <<>>, 0)
  /\ pmY' = pmY - TitleSpacingOf(list)
  /\ pc' = "bl_bullet"
  /\ UNCHANGED <<cfgVars, numPages, pmPage, hookCalls, hookPage, reqH, ret,
                 dayVars, rtwVars, listVars, textVars>>
  /\ UNCHANGED calcVars
  /\ UNCHANGED inked
  /\ UNCHANGED appVars

\* lines 574-582: the bullet glyph
ListBullet ==
  /\ pc = "bl_bullet"
  /\ DrawOnPage("bullet", pmY - BulletSizeOf(list) \div 2, <<>>, 0)
  /\ pc' = "bl_text"
  /\ UNCHANGED <<cfgVars, pmVars, reqH, ret, dayVars, rtwVars, listVars,
                 textVars>>
  /\ UNCHANGED calcVars
  /\ UNCHANGED inked
  /\ UNCHANGED appVars

\* lines 585-600: drawWrappedText at the cursor, setY(newY - itemSpacing);
\* then the next item of the list, if any
ListText ==
  /\ pc = "bl_text"
  /\ LET r == DrawWrappedText(words, pmY, TextMaxWidthOf(list),
                              LineSpacingOf(list), 0)
     IN  /\ DrawOnPage("text", pmY, <<>>, TextMaxWidthOf(list))
         /\ drawnLines' = Len(r.drawn)
         /\ inked' = Flatten([i \in 1..Len(r.drawn) |-> r.drawn[i].line])
         /\ pmY' = r.y - ItemSpacingOf(list)
  /\ itemIdx' = itemIdx + 1
  /\ words' = <<>>
  /\ \E more \in BOOLEAN :
       /\ more => itemIdx + 1 < MaxItems
       /\ pc' = IF more THEN "bl_measure" ELSE "bl_after"
  /\ UNCHANGED <<cfgVars, numPages, pmPage, hookCalls, hookPage, reqH, ret,
                 dayVars, wi, curLine, rtwY, rtwFrom, measuredLines, list,
                 textVars>>
  /\ UNCHANGED calcVars
  /\ UNCHANGED appVars

\* after the inclusions: moveDown(40), then the exclusions on the same manager
ListAfter ==
  /\ pc = "bl_after"
  /\ IF list = "inclusions"
     THEN /\ pmY' = pmY - ExclGapBefore
          /\ list' = "exclusions"
          /\ pc' = "bl_section"
     ELSE /\ pc' = "done"
          /\ UNCHANGED <<pmY, list>>
  /\ drawnLines' = 0
  /\ UNCHANGED <<cfgVars, numPages, pmPage, hookCalls, hookPage, reqH, ret,
                 dayVars, words, wi, curLine, rtwY, rtwFrom, measuredLines,
                 itemIdx, lastDraw, pageDraws, textVars>>
  /\ UNCHANGED calcVars
  /\ inked' = <<>>
  /\ UNCHANGED appVars

\* ---------------------------------------------------------- text primitives
TextDraw ==
  /\ pc = "t_draw"
  /\ tDraw' = DrawWrappedText(tText, tY, tMaxW, DayLineSpacing, tMinY)
  /\ pc' = "t_calc"
  /\ UNCHANGED <<cfgVars, pmVars, reqH, ret, dayVars, rtwVars, listVars,
                 lastDraw, pageDraws, tText, tY, tMaxW, tMinY, tCalc, tWrap>>
  /\ UNCHANGED calcVars
  /\ UNCHANGED inked
  /\ UNCHANGED appVars

TextCalc ==
  /\ pc = "t_calc"
  /\ tCalc' = CalculateWrappedTextHeight(tText, tMaxW, DayLineSpacing)
  /\ pc' = "t_wrap"
  /\ UNCHANGED <<cfgVars, pmVars, reqH, ret, dayVars, rtwVars, listVars,
                 lastDraw, pageDraws, tText, tY, tMaxW, tMinY, tDraw, tWrap>>
  /\ UNCHANGED calcVars
  /\ UNCHANGED inked
  /\ UNCHANGED appVars

TextWrap ==
  /\ pc = "t_wrap"
  /\ tWrap' = WrapText(tText, tMaxW)
  /\ pc' = "done"
  /\ UNCHANGED <<cfgVars, pmVars, reqH, ret, dayVars, rtwVars, listVars,
                 lastDraw, pageDraws, tText, tY, tMaxW, tMinY, tDraw, tCalc>>
  /\ UNCHANGED calcVars
  /\ UNCHANGED inked
  /\ UNCHANGED appVars

\* ---------------------------------------------------- generateItineraryPDF
\* which optional lists of the itinerary data are non-empty
NoData ==
  [highlights |-> FALSE, hotels |-> FALSE, inclusions |-> FALSE,
   exclusions |-> FALSE, terms |-> FALSE]

AllData ==
  [highlights |-> TRUE, hotels |-> TRUE, inclusions |-> TRUE,
   exclusions |-> TRUE, terms |-> TRUE]

DataInputs ==
  [highlights : BOOLEAN, hotels : BOOLEAN, inclusions : BOOLEAN,
   exclusions : BOOLEAN, terms : BOOLEAN]

\* embedAllImages: the images in the order they are embedded
ImageSlots ==
  <<"hero", "why", "template", "destination", "day", "hotel", "airline">>

\* values a step of the composition can throw: an Error, or something else
Thrown ==
  { [isError |-> TRUE, message |-> "save failed"],
    [isError |-> FALSE, message |-> "" ] }

NoThrow == [isError |-> FALSE, message |-> "none"]
NoResult == [kind |-> "none", bytes |-> 0, message |-> <<>>]
NoResponse ==
  [status |-> 0, contentType |-> "", pdf |-> FALSE, error |-> "",
   message |-> <<>>, details |-> {}]

\* a page: its section, the headers and placeholders drawn on it, the
\* running footers stamped on it and the page number of the last stamp
Page(section, draws) ==
  [section |-> section, draws |-> draws, footers |-> 0, footNum |-> 0]

AddPageInFront(d, page) == <<page>> \o d

\* pdfDoc.addPage: the page becomes the last page of the document
AddPage(d, page) == Append(d, page)

\* the images a section's renderer draws when it is handed them
SectionImages(section) ==
  CASE section = "cover"     -> {"hero"}
    [] section = "why"       -> {"why"}
    [] section = "basic"     -> {"template", "destination"}
    [] section = "itinerary" -> {"day"}
    [] section = "stays"     -> {"hotel"}
    [] section = "flights"   -> {"airline"}
    [] OTHER                 -> {}

GenPcs ==
  {"g_begin", "g_embed", "g_cover", "g_why", "g_basic", "g_highlights",
   "g_itinerary", "g_itin_pages", "g_stays", "g_stays_pages", "g_flights",
   "g_incl", "g_incl_pages", "g_excl", "g_excl_pages", "g_terms",
   "g_terms_pages", "g_pricing", "g_footer", "g_save"}

\* PDFDocument.create, loadFonts; then embedAllImages.  A document is either
\* composed from data without images, where the static why-choose-us image may
\* or may not be installed, or its images are followed one by one
GenBegin ==
  /\ pc = "g_begin"
  /\ IF mode = "images"
     THEN /\ pc' = "g_embed"
          /\ slot' = 1
          /\ UNCHANGED embedded
     ELSE /\ \E whyOk \in BOOLEAN :
               embedded' = IF whyOk THEN {"why"} ELSE {}
          /\ pc' = "g_cover"
          /\ UNCHANGED slot
  /\ UNCHANGED <<mode, layoutVars, genVars, outVars, failed, drawn, formVars>>
  /\ UNCHANGED svcVars

EmbedFailurePropagates == FALSE

\* every embedImageInPDF call of embedAllImages and addFooterToAllPages sits
\* in a try block of its own whose catch only logs
EmbedFailureCaught == TRUE

\* embedAllImages: one image; it is absent from the data (or its file does
\* not exist), it is embedded, or embedImageInPDF throws
EmbedImage ==
  /\ pc = "g_embed"
  /\ \E outcome \in {"absent", "ok", "throws"} :
       LET name == ImageSlots[slot]
       IN  /\ embedded' = IF outcome = "ok" THEN embedded \cup {name}
                          ELSE embedded
           /\ failed' = IF outcome = "throws" THEN failed \cup {name}
                        ELSE failed
           /\ IF outcome = "throws" /\ ~EmbedFailureCaught
              THEN /\ thrown' = [isError |-> TRUE,
                                 message |-> "Failed to embed image in PDF"]
                   /\ pc' = "g_catch"
                   /\ UNCHANGED slot
              ELSE /\ slot' = slot + 1
                   /\ pc' = IF slot = Len(ImageSlots) THEN "g_cover"
                            ELSE "g_embed"
                   /\ UNCHANGED thrown
  /\ UNCHANGED <<mode, layoutVars, data, doc, cont, outVars, drawn, formVars>>
  /\ UNCHANGED svcVars

\* a section that starts on a page of its own: addPage, drawPageBackground,
\* the section's renderer
GenPageStep(from, to, section, draws) ==
  /\ pc = from
  /\ doc' = AddPage(doc, Page(section, draws))
  /\ drawn' = drawn \cup (SectionImages(section) \cap embedded)
  /\ cont' = 0
  /\ pc' = to
  /\ UNCHANGED <<mode, layoutVars, data, thrown, outVars, slot, embedded,
                 failed, formVars>>
  /\ UNCHANGED svcVars

\* a section that is left out: nothing is added, nothing is drawn
GenSkipStep(from, to) ==
  /\ pc = from
  /\ pc' = to
  /\ UNCHANGED <<mode, layoutVars, genVars, outVars, imgVars, formVars>>
  /\ UNCHANGED svcVars

\* page 1: the hero page
GenCover == GenPageStep("g_cover", "g_why", "cover", <<"hero">>)

\* page 2: added unconditionally; renderWhyChooseUsSection draws the image,
\* or a placeholder message when the image is not there
GenWhyChooseUs ==
  GenPageStep("g_why", "g_basic", "why",
              IF "why" \in embedded THEN <<"image">> ELSE <<"placeholder">>)

\* page 3: basic details
GenBasicDetails == GenPageStep("g_basic", "g_highlights", "basic", <<>>)

\* page 4, only if (data.tourHighlights && data.tourHighlights.length > 0)
GenTourHighlights ==
  IF data.highlights
  THEN GenPageStep("g_highlights", "g_itinerary", "highlights", <<"header">>)
  ELSE GenSkipStep("g_highlights", "g_itinerary")

\* the first itinerary page with its header; the days follow
GenItinerary ==
  GenPageStep("g_itinerary", "g_itin_pages", "itinerary", <<"Itinerary">>)

\* our stays, only if (data.hotels && data.hotels.length > 0)
GenStays ==
  IF data.hotels
  THEN GenPageStep("g_stays", "g_stays_pages", "stays", <<"Our Stays">>)
  ELSE GenSkipStep("g_stays", "g_flights")

\* the flights page, added unconditionally
GenFlights == GenPageStep("g_flights", "g_incl", "flights", <<>>)

\* the inclusions page, added unconditionally; the header and the list are
\* drawn only if (data.inclusions && data.inclusions.length > 0)
GenInclusions ==
  GenPageStep("g_incl", "g_incl_pages", "inclusions",
              IF data.inclusions THEN <<"Inclusions">> ELSE <<>>)

\* the exclusions on the same page manager: checkAndCreateNewPage(100), which
\* can only break the page below a list of inclusions, then the header
GenExclusions ==
  /\ pc = "g_excl"
  /\ IF data.exclusions
     THEN /\ \E newPage \in BOOLEAN :
               /\ newPage => (data.inclusions /\ mode = "document"
                                /\ cont < MaxCont)
               /\ doc' = IF newPage
                         THEN AddPage(doc, Page("inclusions", <<"Exclusions">>))
                         ELSE [doc EXCEPT ![Len(doc)].draws =
                                            Append(@, "Exclusions")]
               /\ cont' = IF newPage THEN cont + 1 ELSE cont
          /\ pc' = "g_excl_pages"
     ELSE /\ pc' = "g_terms"
          /\ UNCHANGED <<doc, cont>>
  /\ UNCHANGED <<mode, layoutVars, data, thrown, outVars, imgVars, formVars>>
  /\ UNCHANGED svcVars

\* the terms page, added unconditionally; header and list only if the list
\* is not empty
GenTerms ==
  GenPageStep("g_terms", "g_terms_pages", "terms",
              IF data.terms THEN <<"Terms and Conditions">> ELSE <<>>)

\* the final page: pricing, bank and consultant details, the call to action
GenPricing ==
  GenPageStep("g_pricing", "g_footer", "pricing", <<"Pricing Summary">>)

\* the sections whose renderer adds pages while it runs
PagingPcs ==
  {"g_itin_pages", "g_stays_pages", "g_incl_pages", "g_excl_pages",
   "g_terms_pages"}

PagingSection(p) ==
  CASE p = "g_itin_pages"  -> "itinerary"
    [] p = "g_stays_pages" -> "stays"
    [] p = "g_incl_pages"  -> "inclusions"
    [] p = "g_excl_pages"  -> "inclusions"
    [] p = "g_terms_pages" -> "terms"

\* the title redrawn at the top of a page added by the section
PagingTitle(p) ==
  CASE p = "g_itin_pages"  -> <<"Itinerary">>
    [] p = "g_stays_pages" -> <<"Our Stays">>
    [] p = "g_incl_pages"  -> <<"Inclusions">>
    [] p = "g_excl_pages"  -> <<"Exclusions">>
    [] p = "g_terms_pages" -> <<"Terms and Conditions">>

\* the section has items to paginate
PagingHasItems(p) ==
  CASE p = "g_incl_pages"  -> data.inclusions
    [] p = "g_terms_pages" -> data.terms
    [] OTHER               -> TRUE

AfterPaging(p) ==
  CASE p = "g_itin_pages"  -> "g_stays"
    [] p = "g_stays_pages" -> "g_flights"
    [] p = "g_incl_pages"  -> "g_excl"
    [] p = "g_excl_pages"  -> "g_terms"
    [] p = "g_terms_pages" -> "g_pricing"

\* PageManager.createNewPage / renderStaysSection: a page added while the
\* section is being rendered
GenContinue ==
  /\ pc \in PagingPcs
  /\ mode = "document"
  /\ PagingHasItems(pc)
  /\ cont < MaxCont
  /\ doc' = AddPage(doc, Page(PagingSection(pc), PagingTitle(pc)))
  /\ cont' = cont + 1
  /\ UNCHANGED <<mode, pc, layoutVars, data, thrown, outVars, imgVars,
                 formVars>>
  /\ UNCHANGED svcVars

\* the section's renderer returns
GenSectionEnd ==
  /\ pc \in PagingPcs
  /\ pc' = AfterPaging(pc)
  /\ cont' = IF pc = "g_incl_pages" THEN cont ELSE 0
  /\ UNCHANGED <<mode, layoutVars, data, doc, thrown, outVars, imgVars,
                 formVars>>
  /\ UNCHANGED svcVars

\* addFooterToAllPages: if (index === 0) return
FooterSkipsPage(index) == index = 0

PageNumTextZeroBased(index) == index

\* addFooterToAllPages: `${index + 1}`
PageNumText(index) == index + 1

\* addFooterToAllPages: the logo is embedded in a try block of its own, then
\* the divider, the logo and the page number are drawn on every page but the
\* first
GenFooter ==
  /\ pc = "g_footer"
  /\ \E outcome \in {"absent", "ok", "throws"} :
       /\ mode # "images" => outcome = "absent"
       /\ embedded' = IF outcome = "ok" THEN embedded \cup {"footer"}
                      ELSE embedded
       /\ failed' = IF outcome = "throws" THEN failed \cup {"footer"}
                    ELSE failed
       /\ drawn' = IF outcome = "ok" THEN drawn \cup {"footer"} ELSE drawn
       /\ IF outcome = "throws" /\ ~EmbedFailureCaught
          THEN /\ thrown' = [isError |-> TRUE,
                             message |-> "Failed to embed image in PDF"]
               /\ pc' = "g_catch"
               /\ UNCHANGED doc
          ELSE /\ doc' = [i \in 1..Len(doc) |->
                            IF FooterSkipsPage(i - 1)
                            THEN doc[i]
                            ELSE [doc[i] EXCEPT
                                    !.footers = @ + 1,
                                    !.footNum = PageNumText(i - 1)]]
               /\ pc' = "g_save"
               /\ UNCHANGED thrown
  /\ UNCHANGED <<mode, layoutVars, data, cont, outVars, slot, formVars>>
  /\ UNCHANGED svcVars

\* pdfDoc.save(): the bytes of all the pages
GenSave ==
  /\ pc = "g_save"
  /\ result' = [kind |-> "bytes", bytes |-> Len(doc), message |-> <<>>]
  /\ pc' = "r_respond"
  /\ UNCHANGED <<mode, layoutVars, genVars, response, imgVars, formVars>>
  /\ UNCHANGED svcVars

\* a step inside the try block throws; pdfDoc and the images are locals of
\* the block and are gone
GenThrow ==
  /\ pc \in GenPcs
  /\ mode \in {"document", "request"}
  /\ \E e \in Thrown : thrown' = e
  /\ doc' = <<>>
  /\ cont' = 0
  /\ embedded' = {}
  /\ drawn' = {}
  /\ pc' = "g_catch"
  /\ UNCHANGED <<mode, layoutVars, data, outVars, slot, failed, formVars>>
  /\ UNCHANGED svcVars

CatchMessageBare(error) ==
  <<IF error.isError THEN error.message ELSE "Unknown error">>

\* `Failed to generate PDF: ${error instanceof Error ? error.message : "Unknown error"}`
CatchMessage(error) ==
  <<"Failed to generate PDF: ",
    IF error.isError THEN error.message ELSE "Unknown error">>

\* the catch of generateItineraryPDF: throw new Error(...)
GenCatch ==
  /\ pc = "g_catch"
  /\ result' = [kind |-> "rejected", bytes |-> 0,
                message |-> CatchMessage(thrown)]
  /\ pc' = "r_respond"
  /\ UNCHANGED <<mode, layoutVars, genVars, response, imgVars, formVars>>
  /\ UNCHANGED svcVars

\* POST: the PDF with status 200, or the catch answering 500 with JSON
RouteRespond ==
  /\ pc = "r_respond"
  /\ response' =
       IF result.kind = "bytes"
       THEN [status |-> 200, contentType |-> "application/pdf", pdf |-> TRUE,
             error |-> "", message |-> <<>>, details |-> {}]
       ELSE [status |-> 500, contentType |-> "application/json",
             pdf |-> FALSE, error |-> "PDF generation failed",
             message |-> result.message, details |-> {}]
  /\ pc' = "done"
  /\ UNCHANGED <<mode, layoutVars, genVars, result, imgVars, formVars>>
  /\ UNCHANGED svcVars

\* ------------------------------------------------- POST /api/generate-pdf
\* A request body is null (reading a property of it throws), a falsy value,
\* an object without travelDates, or an object.  An object is described by
\* the checks of validateItineraryData it fails (each check is named by the
\* key of the error it records) and by its days; a day is described by
\* whether its activities text is non-blank and whether it has subheadings.
DefectKinds ==
  {"clientName", "destination", "travelDates", "bookingRef",
   "travelDatesStart", "flight1_flightNumber", "hotel1_name", "pricingTotal",
   "bankAccountName", "cancellationPolicy", "contactInfo"}

RequestDay == [activities : BOOLEAN, subheadings : BOOLEAN]

RequestDays == UNION { [1..n -> RequestDay] : n \in 0..MaxReqDays }

NoRequest == [body |-> "none", defects |-> {}, days |-> <<>>]

Requests ==
  { [body |-> b, defects |-> {}, days |-> <<>>] :
      b \in {"null", "falsy", "nodates"} }
    \cup { [body |-> "object", defects |-> d, days |-> ds] :
             d \in { x \in SUBSET DefectKinds : Cardinality(x) <= MaxDefects },
             ds \in RequestDays }

FieldError(key, index) == [key |-> key, index |-> index]

\* validateItineraryData: the errors record, as the set of its keys
ValidationErrors(r) ==
  { FieldError(k, 0) : k \in r.defects }
    \cup (IF Len(r.days) = 0 THEN {FieldError("days", 0)} ELSE {})
    \cup { FieldError("day_activities", i) :
             i \in { j \in 1..Len(r.days) : ~r.days[j].activities } }

IsValidAlways(errors) == TRUE

\* isValid: Object.keys(errors).length === 0
IsValid(errors) == errors = {}

JsonResponse(status, error, message, details) ==
  [status |-> status, contentType |-> "application/json", pdf |-> FALSE,
   error |-> error, message |-> message, details |-> details]

\* request.json() and body.itineraryData || body, then !itineraryData
RouteParse ==
  /\ pc = "r_parse"
  /\ \E r \in Requests :
       /\ request' = r
       /\ CASE r.body = "null" ->
                 /\ response' = JsonResponse(500, "PDF generation failed",
                                             <<"TypeError">>, {})
                 /\ pc' = "done"
            [] r.body = "falsy" ->
                 /\ response' = JsonResponse(400, "Missing itinerary data",
                                             <<>>, {})
                 /\ pc' = "done"
            [] OTHER ->
                 /\ pc' = "r_validate"
                 /\ UNCHANGED response
  /\ UNCHANGED <<mode, layoutVars, genVars, result, imgVars, formVars, calls>>
  /\ UNCHANGED notReqVars

\* validateItineraryData(itineraryData) and the answer to an invalid request;
\* data.travelDates.start throws when the object has no travelDates
RouteValidate ==
  /\ pc = "r_validate"
  /\ calls' = Append(calls, "validateItineraryData")
  /\ IF request.body = "nodates"
     THEN /\ response' = JsonResponse(500, "PDF generation failed",
                                      <<"TypeError">>, {})
          /\ pc' = "done"
     ELSE IF ~IsValid(ValidationErrors(request))
     THEN /\ response' = JsonResponse(400, "Validation failed", <<>>,
                                      ValidationErrors(request))
          /\ pc' = "done"
     ELSE /\ pc' = "r_sanitize"
          /\ UNCHANGED response
  /\ UNCHANGED <<mode, layoutVars, genVars, result, imgVars, formVars, request>>
  /\ UNCHANGED notReqVars

\* sanitizeItineraryData(itineraryData)
RouteSanitize ==
  /\ pc = "r_sanitize"
  /\ calls' = Append(calls, "sanitizeItineraryData")
  /\ pc' = "r_generate"
  /\ UNCHANGED <<mode, layoutVars, genVars, outVars, imgVars, formVars, request>>
  /\ UNCHANGED notReqVars

\* await generateItineraryPDF(sanitizedData, darkMode): the generator runs on
\* the sanitized data, whose optional sections are present or empty, and
\* hands its bytes or its Error to the same handler
RouteGenerate ==
  /\ pc = "r_generate"
  /\ calls' = Append(calls, "generateItineraryPDF")
  /\ \E d \in DataInputs : data' = d
  /\ pc' = "g_begin"
  /\ UNCHANGED <<mode, layoutVars, doc, cont, thrown, outVars, imgVars,
                 formVars, request>>
  /\ UNCHANGED notReqVars

\* ----------------------------------------------------- TravelItineraryForm
\* a day of the form; key stands for the content the user gave it
FormDay(n, k) == [dayNumber |-> n, key |-> k]

\* the form starts with three sample days
InitialFormDays == <<FormDay(1, 1), FormDay(2, 2), FormDay(3, 3)>>

NoLog == [op |-> "none", index |-> 0, before |-> <<>>]
NoPricing ==
  [subtotal |-> 0, taxes |-> 0, fees |-> 0, total |-> 0, currency |-> ""]

\* the sample pricing of the form, in hundredths
InitialPricing ==
  [subtotal |-> 250000, taxes |-> 25000, fees |-> 5000, total |-> 280000,
   currency |-> "USD"]

\* what the user types into a numeric field: a number, or text that
\* parseFloat turns into NaN
TypedValues ==
  { [isNumber |-> TRUE, n |-> 0], [isNumber |-> TRUE, n |-> 120050],
    [isNumber |-> FALSE, n |-> 0] }

\* the pricing of a request body that passes validateItineraryData
RequestPricing ==
  [subtotal : {0, 250000}, taxes : {0, 25000}, fees : {0, 5000},
   total : {0, 280000, 999900}, currency : {"USD", "INR", "XYZ"}]

Keys(days) == [i \in 1..Len(days) |-> days[i].key]

\* formData.days.filter((_, i) => i !== index), index counted from 0
RemoveAt(days, index) ==
  [i \in 1..(Len(days) - 1) |-> IF i <= index THEN days[i] ELSE days[i + 1]]

RenumberKeep(days) == days

\* newDays.map((day, i) => ({ ...day, dayNumber: i + 1 }))
Renumber(days) ==
  [i \in 1..Len(days) |-> [days[i] EXCEPT !.dayNumber = i]]

\* handleAddDay: a blank day numbered length + 1 is appended
HandleAddDay ==
  /\ pc = "f_edit"
  /\ nextKey <= Len(InitialFormDays) + MaxAddedDays
  /\ formDays' = Append(formDays, FormDay(Len(formDays) + 1, nextKey))
  /\ nextKey' = nextKey + 1
  /\ formLog' = [op |-> "add", index |-> 0, before |-> Keys(formDays)]
  /\ UNCHANGED <<mode, pc, layoutVars, genVars, outVars, imgVars, pricing,
                 rows>>
  /\ UNCHANGED svcVars

\* handleRemoveDay(index): nothing happens to the only day
HandleRemoveDay ==
  /\ pc = "f_edit"
  /\ \E index \in 0..(Len(formDays) - 1) :
       IF Len(formDays) > 1
       THEN /\ formDays' = Renumber(RemoveAt(formDays, index))
            /\ formLog' = [op |-> "remove", index |-> index,
                           before |-> Keys(formDays)]
       ELSE UNCHANGED <<formDays, formLog>>
  /\ UNCHANGED <<mode, pc, layoutVars, genVars, outVars, imgVars, nextKey,
                 pricing, rows>>
  /\ UNCHANGED svcVars

\* typeof value === "string" ? parseFloat(value) || 0 : value
ParseFloatOrZero(value) == IF value.isNumber THEN value.n ELSE 0

\* handlePricingChange for the numeric fields of the form: the total is
\* recomputed from the three amounts
HandlePricingChange ==
  /\ pc = "f_edit"
  /\ \E field \in {"subtotal", "taxes", "fees"}, value \in TypedValues :
       LET processedValue == ParseFloatOrZero(value)
           updatedPricing == [pricing EXCEPT ![field] = processedValue]
           subtotal == IF field = "subtotal" THEN processedValue
                       ELSE pricing.subtotal
           taxes == IF field = "taxes" THEN processedValue ELSE pricing.taxes
           fees == IF field = "fees" THEN processedValue ELSE pricing.fees
       IN  pricing' = [updatedPricing EXCEPT !.total = subtotal + taxes + fees]
  /\ UNCHANGED <<mode, pc, layoutVars, genVars, outVars, imgVars, formDays,
                 nextKey, formLog, rows>>
  /\ UNCHANGED svcVars

\* the form is submitted: its data is posted and rendered
FormSubmit ==
  /\ pc = "f_edit"
  /\ pc' = "p_render"
  /\ UNCHANGED <<mode, layoutVars, genVars, outVars, imgVars, formVars>>
  /\ UNCHANGED svcVars

\* formatCurrency: the symbol of the currency (the code itself when it has
\* none) and amount.toFixed(2), the whole part and two decimals
CurrencySymbol(currency) ==
  CASE currency = "USD" -> "$"
    [] currency = "AED" -> "AED "
    [] currency = "INR" -> "Rs."
    [] OTHER            -> currency

FormatCurrency(amount, currency) ==
  [symbol |-> CurrencySymbol(currency), whole |-> amount \div 100,
   decimals |-> amount % 100]

\* renderPricingSection: the values of Subtotal, Taxes, Fees, Total Amount
RenderPricingSection ==
  /\ pc = "p_render"
  /\ rows' = <<FormatCurrency(pricing.subtotal, pricing.currency),
               FormatCurrency(pricing.taxes, pricing.currency),
               FormatCurrency(pricing.fees, pricing.currency),
               FormatCurrency(pricing.total, pricing.currency)>>
  /\ pc' = "done"
  /\ UNCHANGED <<mode, layoutVars, genVars, outVars, imgVars, formDays,
                 nextKey, formLog, pricing>>
  /\ UNCHANGED svcVars

\* ------------------------------------------------------ renderStaysSection
\* Math.floor((maxWidth + cardSpacing) / (cardWidth + cardSpacing))
CardsPerRow == (ContentWidth + CardSpacing) \div (CardWidth + CardSpacing)

RowHeight == CardHeight + CardSpacing

RowFitsAlways(nextRowY) == TRUE

\* the negation of nextRowY < bottomMargin
RowFits(nextRowY) == nextRowY >= StaysBottomMargin

NextColumnXNoGap(x) == x + CardWidth

\* cardX += cardWidth + cardSpacing
NextColumnX(x) == x + CardWidth + CardSpacing

\* the generator calls the section with a non-empty list of hotels on a
\* fresh page; the header is drawn at startY and the first row starts 60 below
StaysHeader ==
  /\ pc = "s_header"
  /\ \E n \in 1..MaxHotels : hotels' = n
  /\ stPage' = 1
  /\ stHeaders' = {1}
  /\ cardX' = ContentStartX
  /\ cardY' = TopY - StaysHeaderGap
  /\ cardCount' = 0
  /\ pc' = "s_card"
  /\ UNCHANGED <<mode, layoutVars, genVars, outVars, imgVars, formVars,
                 cards, stY>>
  /\ UNCHANGED notStaysVars

\* one iteration of hotels.forEach: the page check before a new row, the
\* card, and the move to the next position
StaysCard ==
  /\ pc = "s_card"
  /\ cardCount < hotels
  /\ LET newPage == /\ cardCount % CardsPerRow = 0
                    /\ cardCount > 0
                    /\ ~RowFits(cardY - RowHeight)
         page == IF newPage THEN stPage + 1 ELSE stPage
         x == IF newPage THEN ContentStartX ELSE cardX
         y == IF newPage THEN TopY - StaysHeaderGap ELSE cardY
         count == cardCount + 1
     IN  /\ stPage' = page
         /\ stHeaders' = IF newPage THEN stHeaders \cup {page} ELSE stHeaders
         /\ cards' = Append(cards,
                       [page |-> page, x |-> x, top |-> y,
                        bottom |-> y - CardHeight,
                        header |-> page \in stHeaders',
                        checked |-> cardCount % CardsPerRow = 0 /\ cardCount > 0])
         /\ cardCount' = count
         /\ IF count % CardsPerRow = 0
            THEN /\ cardX' = ContentStartX
                 /\ cardY' = y - (CardHeight + CardSpacing)
            ELSE /\ cardX' = NextColumnX(x)
                 /\ cardY' = y
  /\ UNCHANGED <<mode, pc, layoutVars, genVars, outVars, imgVars, formVars,
                 hotels, stY>>
  /\ UNCHANGED notStaysVars

\* after the loop: a row left incomplete counts as a row, then the section gap
StaysEnd ==
  /\ pc = "s_card"
  /\ cardCount = hotels
  /\ stY' = (IF cardCount % CardsPerRow # 0
             THEN cardY - (CardHeight + CardSpacing) ELSE cardY) - SectionGap
  /\ pc' = "done"
  /\ UNCHANGED <<mode, layoutVars, genVars, outVars, imgVars, formVars,
                 hotels, cardCount, cardX, cardY, stPage, stHeaders, cards>>
  /\ UNCHANGED notStaysVars

\* ---------------------------------------------------- renderFlightsSection
NoTable == [drawn |-> FALSE, top |-> 0, bottom |-> 0]

\* titleRowHeight + headerHeight + flights.length * rowHeight
FlightsTableHeight(n) ==
  FlightsTitleRowHeight + FlightsHeaderHeight + n * FlightsRowHeight

\* the section on its own page: the title at the top margin, then either the
\* "No flights added" line or the rectangle of the whole table, the title row
\* and the column headers.  FlightInput lets the form hold 0..maxFlights
\* flights; the generator calls the section only for a non-empty list
FlightsTitle ==
  /\ pc = "fl_title"
  /\ \E n \in 1..MaxFlights :
       /\ flights' = n
       /\ flTable' = [drawn |-> TRUE, top |-> TopY - FlightsTitleGap,
                      bottom |-> (TopY - FlightsTitleGap) - FlightsTableHeight(n)]
  /\ flY' = (TopY - FlightsTitleGap) - FlightsTitleRowHeight - FlightsHeaderHeight
  /\ flRow' = 0
  /\ pc' = "fl_row"
  /\ UNCHANGED <<mode, layoutVars, genVars, outVars, imgVars, formVars, flRet>>
  /\ UNCHANGED notFlightVars

\* one iteration of flights.forEach: the four columns, currentY -= rowHeight
FlightsRow ==
  /\ pc = "fl_row"
  /\ flRow < flights
  /\ flRow' = flRow + 1
  /\ flY' = flY - FlightsRowHeight
  /\ UNCHANGED <<mode, pc, layoutVars, genVars, outVars, imgVars, formVars,
                 flights, flTable, flRet>>
  /\ UNCHANGED notFlightVars

\* return currentY - 25
FlightsEnd ==
  /\ pc = "fl_row"
  /\ flRow = flights
  /\ flRet' = flY - FlightsEndGap
  /\ pc' = "done"
  /\ UNCHANGED <<mode, layoutVars, genVars, outVars, imgVars, formVars,
                 flights, flRow, flY, flTable>>
  /\ UNCHANGED notFlightVars

\* ------------------------------------------- section visibility switches
\* the form starts with sample flights and hotels and both switches on
InitialVisibility ==
  [showFlights |-> TRUE, showHotels |-> TRUE, flights |-> TRUE,
   hotels |-> TRUE]

NoVisibility ==
  [showFlights |-> FALSE, showHotels |-> FALSE, flights |-> FALSE,
   hotels |-> FALSE]

\* setFormData({ ...formData, showFlights: !formData.showFlights })
HandleShowFlightsToggle ==
  /\ pc = "v_edit"
  /\ visibility' = [visibility EXCEPT !.showFlights = ~visibility.showFlights]
  /\ UNCHANGED <<mode, pc, layoutVars, genVars, outVars, imgVars, formVars,
                 posted, sections>>
  /\ UNCHANGED notToggleVars

\* setFormData({ ...formData, showHotels: !formData.showHotels })
HandleShowHotelsToggle ==
  /\ pc = "v_edit"
  /\ visibility' = [visibility EXCEPT !.showHotels = ~visibility.showHotels]
  /\ UNCHANGED <<mode, pc, layoutVars, genVars, outVars, imgVars, formVars,
                 posted, sections>>
  /\ UNCHANGED notToggleVars

\* handleFlightsChange: FlightInput is rendered only while showFlights is on
HandleFlightsChange ==
  /\ pc = "v_edit"
  /\ visibility.showFlights
  /\ \E nonEmpty \in BOOLEAN :
       visibility' = [visibility EXCEPT !.flights = nonEmpty]
  /\ UNCHANGED <<mode, pc, layoutVars, genVars, outVars, imgVars, formVars,
                 posted, sections>>
  /\ UNCHANGED notToggleVars

\* handleHotelsChange: HotelStayInput is rendered only while showHotels is on
HandleHotelsChange ==
  /\ pc = "v_edit"
  /\ visibility.showHotels
  /\ \E nonEmpty \in BOOLEAN :
       visibility' = [visibility EXCEPT !.hotels = nonEmpty]
  /\ UNCHANGED <<mode, pc, layoutVars, genVars, outVars, imgVars, formVars,
                 posted, sections>>
  /\ UNCHANGED notToggleVars

\* handleGeneratePDF: body: JSON.stringify({ itineraryData: formData, ... })
HandleGeneratePDF ==
  /\ pc = "v_edit"
  /\ posted' = visibility
  /\ pc' = "v_generate"
  /\ UNCHANGED <<mode, layoutVars, genVars, outVars, imgVars, formVars,
                 visibility, sections>>
  /\ UNCHANGED notToggleVars

\* generateItineraryPDF: renderStaysSection is called when data.hotels is
\* non-empty, renderFlightsSection when data.flights is non-empty
GenerateFromForm ==
  /\ pc = "v_generate"
  /\ sections' = (IF posted.hotels THEN {"stays"} ELSE {})
                   \cup (IF posted.flights THEN {"flights"} ELSE {})
  /\ pc' = "done"
  /\ UNCHANGED <<mode, layoutVars, genVars, outVars, imgVars, formVars,
                 visibility, posted>>
  /\ UNCHANGED notToggleVars

\* -------------------------------------------- distributeContentAcrossPages
\* wrapText on the activities of a day yields this many lines; 0 stands for a
\* blank text, for which calculateRenderedTextHeight returns 0
WrappedLineCounts ==
  {0, 1, ActivitiesMaxLines, ActivitiesMaxLines + 1, LongTextLines}

WrapTextNoLimit(lines) == lines

\* wrapTextWithLimit: wrappedLines.slice(0, maxLines)
WrapTextWithLimit(lines) ==
  IF lines <= ActivitiesMaxLines THEN lines ELSE ActivitiesMaxLines

\* calculateRenderedTextHeight: lines.length * lineHeightPoints
CalculateRenderedTextHeight(lines) ==
  WrapTextWithLimit(lines) * ActivitiesLineHeight

Max(a, b) == IF a >= b THEN a ELSE b

\* calculateDayHeight
CalculateDayHeight(lines) ==
  Max(MinDayHeight, CalculateRenderedTextHeight(lines) + DayPadding * 2)
    + DaySpacing

Page1ItineraryStartY ==
  LetterPageHeight - LetterMargin - HeaderSectionHeight - ClientInfoHeight
    - ItineraryHeaderSpace

Page1AvailableHeight ==
  Page1ItineraryStartY
    - (HotelSectionHeight + InclusionsSectionHeight + PricingSectionHeight
         + FooterSectionHeight)
    - LetterMargin - Page1SafetyMargin

ContinuationStartY ==
  LetterPageHeight - LetterMargin - HeaderSectionHeight - ContinuationGap

ContinuationAvailableHeight ==
  LetterPageHeight - LetterMargin - LetterMargin - HeaderSectionHeight
    - FooterSectionHeight - ContinuationSafetyMargin

\* the heights of all days are calculated, page 1 is set up
DistBegin ==
  /\ pc = "d_begin"
  /\ \E n \in 1..MaxDistDays :
       \E lines \in [1..n -> WrappedLineCounts] :
         dayHeights' = [i \in 1..n |-> CalculateDayHeight(lines[i])]
  /\ currentPageNum' = 1
  /\ distY' = Page1ItineraryStartY
  /\ availableHeight' = Page1AvailableHeight
  /\ dayIndex' = 0
  /\ pc' = "d_loop"
  /\ UNCHANGED <<mode, layoutVars, genVars, outVars, imgVars, formVars,
                 creations, placed>>
  /\ UNCHANGED notDistVars

\* one iteration of the while loop: the day is added to the current page, or
\* the page is saved and a continuation page is started
DistStep ==
  /\ pc = "d_loop"
  /\ dayIndex < Len(dayHeights)
  /\ creations <= MaxCont   \* cap on the pages started for one day
  /\ LET dayHeight == dayHeights[dayIndex + 1]
     IN  IF dayHeight <= availableHeight
         THEN /\ placed' = Append(placed, currentPageNum)
              /\ distY' = distY - dayHeight
              /\ availableHeight' = availableHeight - dayHeight
              /\ dayIndex' = dayIndex + 1
              /\ creations' = 0
              /\ UNCHANGED currentPageNum
         ELSE /\ currentPageNum' = currentPageNum + 1
              /\ distY' = ContinuationStartY
              /\ availableHeight' = ContinuationAvailableHeight
              /\ creations' = creations + 1
              /\ UNCHANGED <<placed, dayIndex>>
  /\ UNCHANGED <<mode, pc, layoutVars, genVars, outVars, imgVars, formVars,
                 dayHeights>>
  /\ UNCHANGED notDistVars

\* the loop has ended; the closing sections go to the last page
DistEnd ==
  /\ pc = "d_loop"
  /\ dayIndex = Len(dayHeights)
  /\ pc' = "done"
  /\ UNCHANGED <<mode, layoutVars, genVars, outVars, imgVars, formVars,
                 distVars>>
  /\ UNCHANGED notDistVars

\* -------------------------------------------------------------- day images
\* a day of the request: its dayNumber (not validated) and its image field,
\* which is absent, embeddable, or makes embedImageInPDF throw
ImageDay == [dayNumber : 1..MaxImgDays, image : {"none", "ok", "broken"}]

ImageDayLists == UNION { [1..n -> ImageDay] : n \in 1..MaxImgDays }

\* no image; an embedded image is named by the position of the day it
\* was read from
NoImage == 0

\* the request is admitted and embedAllImages reaches its loop over the days
DayImagesBegin ==
  /\ pc = "i_begin"
  /\ \E ds \in ImageDayLists : imgDays' = ds
  /\ imgIdx' = 1
  /\ dayImages' = [n \in 1..MaxImgDays |-> NoImage]
  /\ pc' = "i_embed"
  /\ UNCHANGED <<mode, layoutVars, genVars, outVars, imgVars, formVars,
                 renderedWith>>
  /\ UNCHANGED notDayImgVars

\* for (const day of data.days): dayImages.set(day.dayNumber, pdfImage)
\* unless the day has no image or the embedding throws
EmbedDayImage ==
  /\ pc = "i_embed"
  /\ LET day == imgDays[imgIdx]
     IN  dayImages' = IF day.image = "ok"
                      THEN [dayImages EXCEPT ![day.dayNumber] = imgIdx]
                      ELSE dayImages
  /\ IF imgIdx = Len(imgDays)
     THEN imgIdx' = 1 /\ pc' = "i_render"
     ELSE imgIdx' = imgIdx + 1 /\ UNCHANGED pc
  /\ UNCHANGED <<mode, layoutVars, genVars, outVars, imgVars, formVars,
                 imgDays, renderedWith>>
  /\ UNCHANGED notDayImgVars

\* the day loop of generateItineraryPDF: dayImages.get(day.dayNumber) is
\* handed to renderPaginatedItineraryDay
RenderDayWithImage ==
  /\ pc = "i_render"
  /\ renderedWith' = Append(renderedWith, dayImages[imgDays[imgIdx].dayNumber])
  /\ IF imgIdx = Len(imgDays)
     THEN pc' = "done" /\ UNCHANGED imgIdx
     ELSE imgIdx' = imgIdx + 1 /\ UNCHANGED pc
  /\ UNCHANGED <<mode, layoutVars, genVars, outVars, imgVars, formVars,
                 imgDays, dayImages>>
  /\ UNCHANGED notDayImgVars

\* ------------------------------------------------------------ specification
Modes ==
  {"itinerary", "dayheight", "bullets", "text", "document", "images", "form",
   "pricing", "request", "stays", "flights", "visibility", "distribute",
   "dayimages"}

\* The state after the PageManager of a section has been constructed on the
\* section's first page (pages are counted from that page), or before a text
\* primitive is called on its arguments.
Init ==
  /\ mode \in Modes
  /\ pc = CASE mode = "itinerary" -> "itin_header"
            [] mode = "dayheight" -> "itin_header"
            [] mode = "bullets"   -> "bl_section"
            [] mode = "text"      -> "t_draw"
            [] mode = "document"  -> "g_begin"
            [] mode = "images"    -> "g_begin"
            [] mode = "form"      -> "f_edit"
            [] mode = "pricing"   -> "p_render"
            [] mode = "request"   -> "r_parse"
            [] mode = "stays"     -> "s_header"
            [] mode = "flights"   -> "fl_title"
            [] mode = "visibility" -> "v_edit"
            [] mode = "distribute" -> "d_begin"
            [] mode = "dayimages" -> "i_begin"
  /\ numPages = 1
  /\ pmPage = 1
  /\ pmY = PageHeight - PageMarginTop
  /\ pmMB = IF mode = "text" THEN DefaultMarginBottom ELSE FooterMarginBottom
  /\ hasHook \in (IF mode \in {"itinerary", "bullets"} THEN BOOLEAN ELSE {FALSE})
  /\ hookCalls = 0
  /\ hookPage = 0
  /\ reqH = 0
  /\ ret = FALSE
  /\ dayNo = 1
  /\ goldBarY = 0
  /\ goldBarPage = 0
  /\ imagePage = 0
  /\ imageStartY = 0
  /\ subIdx = 0
  /\ numSubs = 0
  /\ words = <<>>
  /\ wi = 0
  /\ curLine = <<>>
  /\ rtwY = 0
  /\ rtwFrom = "none"
  /\ measuredLines = 0
  /\ drawnLines = 0
  /\ inked = <<>>
  /\ vlines = {}
  /\ list \in (IF mode = "bullets" THEN {"inclusions", "terms"} ELSE {"none"})
  /\ itemIdx = 0
  /\ lastDraw = NoDraw
  /\ pageDraws = {}
  /\ tText \in (IF mode = "text" THEN RawTexts ELSE {<<>>})
  /\ tY \in (IF mode = "text" THEN TextYs ELSE {0})
  /\ tMaxW \in (IF mode = "text" THEN TextWidths ELSE {0})
  /\ tMinY \in (IF mode = "text" THEN TextMinYs ELSE {0})
  /\ tDraw = [y |-> 0, drawn |-> <<>>]
  /\ tCalc = 0
  /\ tWrap = <<>>
  /\ calcText = 0
  /\ dayImage = FALSE
  /\ data \in (CASE mode = "document" -> DataInputs
                 [] mode = "images"   -> {AllData}
                 [] OTHER             -> {NoData})
  /\ doc = <<>>
  /\ cont = 0
  /\ thrown = NoThrow
  /\ result = NoResult
  /\ response = NoResponse
  /\ slot = 0
  /\ embedded = {}
  /\ failed = {}
  /\ drawn = {}
  /\ formDays = IF mode = "form" THEN InitialFormDays ELSE <<>>
  /\ nextKey = IF mode = "form" THEN Len(InitialFormDays) + 1 ELSE 0
  /\ formLog = NoLog
  /\ pricing \in (CASE mode = "form"    -> {InitialPricing}
                    [] mode = "pricing" -> RequestPricing
                    [] OTHER            -> {NoPricing})
  /\ rows = <<>>
  /\ request = NoRequest
  /\ calls = <<>>
  /\ hotels = 0
  /\ cardCount = 0
  /\ cardX = 0
  /\ cardY = 0
  /\ stPage = 0
  /\ stHeaders = {}
  /\ cards = <<>>
  /\ stY = 0
  /\ flights = 0
  /\ flRow = 0
  /\ flY = 0
  /\ flTable = NoTable
  /\ flRet = 0
  /\ visibility = IF mode = "visibility" THEN InitialVisibility
                  ELSE NoVisibility
  /\ posted = NoVisibility
  /\ sections = {}
  /\ dayHeights = <<>>
  /\ dayIndex = 0
  /\ currentPageNum = 0
  /\ availableHeight = 0
  /\ distY = 0
  /\ creations = 0
  /\ placed = <<>>
  /\ imgDays = <<>>
  /\ imgIdx = 0
  /\ dayImages = <<>>
  /\ renderedWith = <<>>

Next ==
  \/ CheckAndCreateNewPage
  \/ CreateNewPage
  \/ DrawHeader
  \/ DayDrawBar
  \/ DayDrawTitle
  \/ SubMeasure
  \/ SubMarker
  \/ SubTitle
  \/ ActText
  \/ RtwWord
  \/ RtwFinish
  \/ SubEnd
  \/ DayAfterText
  \/ HotelDraw
  \/ DayImage
  \/ DayDivider
  \/ DayVerticalLine
  \/ NextDay
  \/ ListSection
  \/ ListHead
  \/ ListMeasure
  \/ ListTitle
  \/ ListBullet
  \/ ListText
  \/ ListAfter
  \/ TextDraw
  \/ TextCalc
  \/ TextWrap
  \/ GenBegin
  \/ EmbedImage
  \/ GenCover
  \/ GenWhyChooseUs
  \/ GenBasicDetails
  \/ GenTourHighlights
  \/ GenItinerary
  \/ GenStays
  \/ GenFlights
  \/ GenInclusions
  \/ GenExclusions
  \/ GenTerms
  \/ GenPricing
  \/ GenContinue
  \/ GenSectionEnd
  \/ GenFooter
  \/ GenSave
  \/ GenThrow
  \/ GenCatch
  \/ RouteParse
  \/ RouteValidate
  \/ RouteSanitize
  \/ RouteGenerate
  \/ RouteRespond
  \/ HandleAddDay
  \/ HandleRemoveDay
  \/ HandlePricingChange
  \/ FormSubmit
  \/ RenderPricingSection
  \/ StaysHeader
  \/ StaysCard
  \/ StaysEnd
  \/ FlightsTitle
  \/ FlightsRow
  \/ FlightsEnd
  \/ HandleShowFlightsToggle
  \/ HandleShowHotelsToggle
  \/ HandleFlightsChange
  \/ HandleHotelsChange
  \/ HandleGeneratePDF
  \/ GenerateFromForm
  \/ DistBegin
  \/ DistStep
  \/ DistEnd
  \/ DayImagesBegin
  \/ EmbedDayImage
  \/ RenderDayWithImage

Spec == Init /\ [][Next]_vars

\* the renderers are straight-line loops that run to completion
FairSpec == Spec /\ WF_vars(Next)

TypeOK ==
  /\ mode \in Modes
  /\ numPages \in Nat /\ pmPage \in 1..numPages
  /\ pmY \in Int /\ reqH \in Nat /\ ret \in BOOLEAN

\* ------------------------------------------------------------------ claims
CheckStepAsClaimed ==
  pc \in CheckPcs =>
    IF pmY - reqH < pmMB
    THEN /\ numPages' = numPages + 1
         /\ pmPage' = numPages'
         /\ pmY' = PageHeight - PageMarginTop
         /\ hookCalls' = hookCalls + (IF hasHook THEN 1 ELSE 0)
         /\ hasHook => hookPage' = pmPage'
         /\ ret' = TRUE
    ELSE /\ ret' = FALSE
         /\ UNCHANGED <<numPages, pmPage, pmY, hookCalls, hookPage>>

\* C1: checkAndCreateNewPage(h): when currentY - h < marginBottom exactly one
\* page is appended and made current, the cursor is pageHeight - marginTop,
\* the onNewPage hook (if supplied) runs once on that page and the result is
\* true; otherwise the result is false and pages, current page and cursor
\* are unchanged.
C1_CheckAndCreateNewPage == [][CheckStepAsClaimed]_vars

\* a pre-check of a subheading block has just created a page with the hook
C1_Witness ==
  /\ pc = "sub_header" /\ ret /\ hasHook
  /\ numPages = 2 /\ pmPage = 2 /\ hookCalls = 1 /\ hookPage = 2

\* C2: every atomic unit of a paginated section (bullet item, subheading
\* block, hotel-name line, day block) is started at a cursor that is not
\* below the bottom margin; a pre-checked unit that does not fit below the
\* cursor is the first content of a new page.
C2_UnitsStartAboveMargin ==
  lastDraw.kind \in {"badge", "subtitle", "hotel", "bullet"} =>
    /\ lastDraw.cur >= pmMB
    /\ lastDraw.fits \/ lastDraw.first

\* a bullet item that did not fit was started as first content of a new page
C2_Witness ==
  /\ lastDraw.kind = "bullet" /\ ret /\ lastDraw.first /\ ~lastDraw.fits
  /\ lastDraw.page > 1

PageCreatedBetweenUnits ==
  numPages' > numPages => pc \in CheckPcs \cup {"day_newpage"}

\* C3 (as claimed): a page is created only between draw units, by a
\* pre-check or at the start of a day, never while the lines of a paragraph
\* are being drawn.
C3_PagesOnlyBetweenUnits == [][PageCreatedBetweenUnits]_vars

CursorRaisedOnlyByNewPage ==
  pmY' > pmY =>
    (numPages' = numPages + 1 /\ pmY' = PageHeight - PageMarginTop)

\* C4: the cursor never increases except by a page creation, which sets it
\* to pageHeight - marginTop.
C4_CursorOnlyDecreases == [][CursorRaisedOnlyByNewPage]_vars

\* lines of a day text lowered the cursor below 80 and the page created in
\* the middle of the text has just raised it to the top of the new page
C4_Witness ==
  /\ mode = "itinerary" /\ pc = "rtw_word" /\ drawnLines > 0
  /\ numPages = 2 /\ pmPage = 2 /\ pmY = PageHeight - PageMarginTop

\* C5: without a floor, drawWrappedText returns y minus the height measured
\* by calculateWrappedTextHeight, and draws the measured number of lines.
C5_DrawConsumesMeasuredHeight ==
  (mode = "text" /\ pc = "done" /\ tMinY = 0) =>
    /\ tDraw.y = tY - tCalc
    /\ Len(tDraw.drawn) * DayLineSpacing = tCalc

\* a text of several lines was drawn and measured
C5_Witness ==
  /\ mode = "text" /\ pc = "done" /\ tMinY = 0
  /\ Len(tDraw.drawn) >= 3 /\ tCalc = 3 * DayLineSpacing

\* C6 (as claimed): the line count pre-measured for a subheading description
\* equals the number of lines renderTextWithDynamicWidth draws for it.
C6_MeasuredEqualsDrawn ==
  (pc = "sub_end" /\ rtwFrom = "sub") => measuredLines = drawnLines

\* C7 (as claimed): every continuation page of a day that carries day text
\* carries the "(continued)" marker and no day-number badge.
C7_ContinuationPagesMarked ==
  (mode = "itinerary" /\ pmPage # goldBarPage
     /\ pageDraws \cap {"subtitle", "line", "hotel"} # {}) =>
    ("marker" \in pageDraws /\ "badge" \notin pageDraws)

\* C8 (as claimed): when a day ends on a later page than it started, the
\* accent rule has a segment on the first page from the badge to the bottom
\* margin and a segment on the continuation page from the top margin.
C8_RuleInTwoSegments ==
  (pc \in {"day_done", "day_done_last"} /\ pmPage # goldBarPage) =>
    /\ \E s \in vlines :
         s.page = goldBarPage /\ s.from = goldBarY /\ s.to = pmMB
    /\ \E s \in vlines :
         s.page = pmPage /\ s.from = PageHeight - PageMarginTop

\* the words of a sequence of lines, in order
WordsOf(lines) == SelectSeq(Flatten(lines), IsWord)

\* no word wider than the limit shares a line; a line of several words fits
LinesWellWrapped(lines, limit) ==
  \A i \in 1..Len(lines) :
    /\ Len(lines[i]) >= 2 => WidthOfText(lines[i]) <= limit
    /\ \A j \in 1..Len(lines[i]) : lines[i][j] > limit => Len(lines[i]) = 1

DrawnLines == [i \in 1..Len(tDraw.drawn) |-> tDraw.drawn[i].line]

\* C9: wrapping ends after one pass over the words and never splits a word:
\* the lines hold the words of the text in order, a word wider than the
\* limit is alone on its line, a line of two or more words fits the limit
\* (drawWrappedText, wrapText and renderTextWithDynamicWidth).
C9_WrapKeepsWordsWhole ==
  /\ (mode = "text" /\ pc = "done") =>
        /\ LinesWellWrapped(tWrap, tMaxW)
        /\ WordsOf(tWrap) = SelectSeq(tText, IsWord)
        /\ Len(tWrap) <= Len(tText)
        /\ tMinY = 0 =>
              /\ LinesWellWrapped(DrawnLines, tMaxW)
              /\ WordsOf(DrawnLines) = SelectSeq(tText, IsWord)
              /\ Len(DrawnLines) <= Len(tText)
  /\ lastDraw.kind = "line" =>
        /\ LinesWellWrapped(<<lastDraw.line>>, lastDraw.limit)
        /\ lastDraw.line # <<>>
  /\ pc \in {"rtw_word", "rtw_newpage"} =>
        /\ wi \in 1..(Len(words) + 1)
        /\ drawnLines < wi

\* an unbroken word wider than the column was drawn alone by every wrapper
C9_Witness ==
  /\ mode = "text" /\ pc = "done" /\ tMinY = 0 /\ tMaxW = LeftColumnWidth
  /\ \E i \in 1..Len(tWrap) : tWrap[i] = <<WordL>>
  /\ \E i \in 1..Len(DrawnLines) : DrawnLines[i] = <<WordL>>
  /\ \E i \in 1..Len(tWrap) : Len(tWrap[i]) >= 2

\* C10 (as claimed): with a positive floor minY no line is drawn at a Y at or
\* below minY.
C10_NoLineAtOrBelowFloor ==
  (mode = "text" /\ pc = "done" /\ tMinY > 0) =>
    \A i \in 1..Len(tDraw.drawn) : tDraw.drawn[i].y > tMinY

\* a line of day text drawn beside the image box: on the page where the day
\* started, at a Y above the bottom edge of the box
BesideImage(d) == d.page = imagePage /\ d.y > ImageBottomY

DayConsumed == (goldBarY + BarHeight) - pmY

\* C12 (as claimed): a day that stays on one page consumes the height that
\* calculateItineraryDayHeight reports for it: header, trailing spacing and
\* max(left-column height, image height), the image counted only when the
\* day has one.
C12_DayConsumesCalculatedHeight ==
  (Measured /\ pc \in {"day_vline", "day_vline_last"}
     /\ pmPage = goldBarPage) =>
    DayConsumed = CalculateItineraryDayHeight(calcText, dayImage)

\* the fixed order of the sections
SectionOrder ==
  <<"cover", "why", "basic", "highlights", "itinerary", "stays", "flights",
    "inclusions", "terms", "pricing">>

Rank(section) ==
  CHOOSE i \in 1..Len(SectionOrder) : SectionOrder[i] = section

PagesOf(section) == {i \in 1..Len(doc) : doc[i].section = section}

Generated == result.kind = "bytes"

\* C13: at every moment the pages of the document are in the fixed section
\* order, continuation pages included: the cover is first, no page of a later
\* section precedes a page of an earlier one, and in the finished document
\* the single pricing page is last.
C13_SectionsInFixedOrder ==
  /\ \A i, j \in 1..Len(doc) :
       i < j => Rank(doc[i].section) <= Rank(doc[j].section)
  /\ doc # <<>> => doc[1].section = "cover"
  /\ Generated => PagesOf("pricing") = {Len(doc)}

\* a finished document with every optional section and with continuation
\* pages in the itinerary, the stays, the inclusions and the terms
C13_Witness ==
  /\ Generated /\ pc = "done"
  /\ PagesOf("highlights") # {}
  /\ Cardinality(PagesOf("itinerary")) >= 2
  /\ Cardinality(PagesOf("stays")) >= 2
  /\ Cardinality(PagesOf("inclusions")) >= 2
  /\ Cardinality(PagesOf("terms")) >= 2

\* C14 (as claimed): an optional section whose source data is absent or
\* empty (why-choose-us, tour highlights, hotel stays) adds no page and
\* draws nothing.
C14_AbsentSectionsLeaveNoPage ==
  Generated =>
    /\ "why" \notin embedded => PagesOf("why") = {}
    /\ ~data.highlights => PagesOf("highlights") = {}
    /\ ~data.hotels => PagesOf("stays") = {}

IsPlaceholder(d) == d = "placeholder"

\* C15 (as claimed): a document generated from an empty inclusions list
\* shows, on the inclusions page, the "Inclusions" header and exactly one
\* placeholder line.
C15_EmptyInclusionsPlaceholder ==
  (Generated /\ ~data.inclusions) =>
    \E i \in PagesOf("inclusions") :
      /\ \E k \in 1..Len(doc[i].draws) : doc[i].draws[k] = "Inclusions"
      /\ Len(SelectSeq(doc[i].draws, IsPlaceholder)) = 1

\* C16: once the footer has been stamped every page but the cover carries
\* exactly one footer, numbered with the page's 1-based position, and the
\* cover none; no page carries a footer before the last page, the pricing
\* page, exists.
C16_OneFooterPerBodyPage ==
  /\ (pc \in {"g_save", "r_respond", "done"} /\ doc # <<>>) =>
       \A i \in 1..Len(doc) :
         IF i = 1
         THEN doc[i].footers = 0
         ELSE doc[i].footers = 1 /\ doc[i].footNum = i
  /\ (\E i \in 1..Len(doc) : doc[i].footers > 0) =>
       (pc \in {"g_save", "r_respond", "done"}
          /\ doc[Len(doc)].section = "pricing")

\* the longest document: continuation pages in every paginated section, the
\* last page numbered with the page count
C16_Witness ==
  /\ Generated /\ pc = "done"
  /\ Len(doc) >= Len(SectionOrder) + 4
  /\ doc[Len(doc)].footNum = Len(doc)
  /\ doc[2].footNum = 2

\* C17 (as claimed): the total row shows subtotal + taxes + fees whatever
\* the total field of the input holds.
C17_TotalRowIsSum ==
  (mode \in {"form", "pricing"} /\ pc = "done") =>
    rows[4] = FormatCurrency(pricing.subtotal + pricing.taxes + pricing.fees,
                             pricing.currency)

\* C18: whatever days were added and removed, the day numbers are 1..N in
\* list order, and a removal leaves the other days in their former order.
C18_DayNumbersContiguous ==
  mode = "form" =>
    /\ \A i \in 1..Len(formDays) : formDays[i].dayNumber = i
    /\ formLog.op = "remove" =>
         Keys(formDays) =
           SubSeq(formLog.before, 1, formLog.index)
             \o SubSeq(formLog.before, formLog.index + 2, Len(formLog.before))
    /\ formLog.op = "add" =>
         SubSeq(Keys(formDays), 1, Len(formLog.before)) = formLog.before

\* a day was added to the three sample days and the second of the four was
\* then removed
C18_Witness ==
  /\ mode = "form"
  /\ formLog = [op |-> "remove", index |-> 1, before |-> <<1, 2, 3, 4>>]
  /\ Keys(formDays) = <<1, 3, 4>>
  /\ formDays[3].dayNumber = 3

\* C19: embedding failures are caught image by image: the document is still
\* generated and served, complete and in order, and every image that was
\* embedded is drawn; only the images whose embedding threw are missing.
C19_EmbedFailuresStayLocal ==
  /\ mode = "images" => pc # "g_catch"
  /\ (mode = "images" /\ pc = "done") =>
       /\ Generated /\ response.status = 200 /\ response.pdf
       /\ [i \in 1..Len(doc) |-> doc[i].section] = SectionOrder
       /\ embedded \cap failed = {}
       /\ drawn = embedded

\* the hero image, the day image and the footer logo failed to embed; the
\* other images are in the finished document
C19_Witness ==
  /\ mode = "images" /\ pc = "done"
  /\ failed = {"hero", "day", "footer"}
  /\ drawn = {"why", "template", "destination", "hotel", "airline"}

\* C20: when a step throws, generateItineraryPDF yields no bytes and rejects
\* with one error "Failed to generate PDF: ...", and the handler answers
\* with status 500 and a JSON body instead of the PDF.
C20_FailureIsGeneric ==
  /\ pc \in {"r_respond", "done"} =>
       (thrown # NoThrow <=> result.kind = "rejected")
  /\ result.kind = "rejected" =>
       /\ result.bytes = 0
       /\ result.message =
            <<"Failed to generate PDF: ",
              IF thrown.isError THEN thrown.message ELSE "Unknown error">>
  /\ (pc = "done" /\ result.kind = "rejected") =>
       /\ response.status = 500
       /\ ~response.pdf
       /\ response.contentType = "application/json"
       /\ response.message = result.message

\* a step threw a value that is not an Error and the handler has answered
C20_Witness ==
  /\ pc = "done" /\ thrown \in Thrown /\ ~thrown.isError
  /\ result.message = <<"Failed to generate PDF: ", "Unknown error">>
  /\ response.status = 500

\* C21: a request whose data fails validation is answered with status 400
\* and the per-field errors, and neither sanitizeItineraryData nor
\* generateItineraryPDF is invoked for it: generation starts only after
\* validation has succeeded.
C21_InvalidRequestNeverRendered ==
  (request.body = "object" /\ ValidationErrors(request) # {}) =>
     /\ calls \in {<<>>, <<"validateItineraryData">>}
     /\ pc = "done" =>
          /\ response.status = 400
          /\ response.error = "Validation failed"
          /\ response.details = ValidationErrors(request)
          /\ result = NoResult

\* a request with a blank client name and a second day without activities
\* has been answered
C21_Witness ==
  /\ pc = "done" /\ request.body = "object"
  /\ response.status = 400
  /\ response.details =
       {FieldError("clientName", 0), FieldError("day_activities", 2)}
  /\ calls = <<"validateItineraryData">>

\* the cards drawn on the page of card i before it
CardsBefore(i) == { j \in 1..(i - 1) : cards[j].page = cards[i].page }

\* C22: the remaining space is checked before every new row of hotel cards
\* and a row that does not fit starts a new page on which the "Our Stays"
\* header is drawn before the row: no card has its bottom edge below the
\* bottom margin of 60.
C22_HotelRowsFitPage ==
  \A i \in 1..Len(cards) :
    /\ cards[i].bottom >= StaysBottomMargin
    /\ cards[i].header
    /\ (i > 1 /\ (i - 1) % CardsPerRow = 0) => cards[i].checked
    /\ cards[i].page > 1 => cards[i].page \in stHeaders

\* a row did not fit and its first card was drawn at the top of a second page
C22_Witness ==
  /\ mode = "stays" /\ Len(cards) >= 5
  /\ cards[Len(cards)].page = 2 /\ cards[Len(cards) - 1].page = 1
  /\ cards[Len(cards)].top = TopY - StaysHeaderGap

\* C23: cards are laid out row-major in CardsPerRow columns: the k-th card
\* of a page (counted from 0) is at x = startX + (k mod CardsPerRow) *
\* (cardWidth + spacing), in row k div CardsPerRow of the page; two hotels
\* share a page and a row, the second cardWidth + spacing to the right.
C23_CardsRowMajor ==
  /\ \A i \in 1..Len(cards) :
       LET k == Cardinality(CardsBefore(i))
       IN  /\ cards[i].x =
                ContentStartX + (k % CardsPerRow) * (CardWidth + CardSpacing)
           /\ cards[i].top =
                (TopY - StaysHeaderGap) - (k \div CardsPerRow) * RowHeight
  /\ (hotels = 2 /\ Len(cards) = 2) =>
       /\ CardsPerRow = 2
       /\ cards[2].page = cards[1].page
       /\ cards[2].top = cards[1].top
       /\ cards[2].x = cards[1].x + CardWidth + CardSpacing

\* two hotels have been laid out
C23_Witness ==
  /\ mode = "stays" /\ pc = "done" /\ hotels = 2
  /\ cards[2].x = ContentStartX + CardWidth + CardSpacing

\* C24: for every number of flights the form allows, the table drawn by
\* renderFlightsSection lies entirely above the bottom margin of its page,
\* and so does every row of it.
C24_FlightsTableFits ==
  flTable.drawn =>
    /\ flTable.bottom >= PageMarginBottom
    /\ flY >= flTable.bottom

\* C25: when the form's "Include in PDF" switch of the flights (of the
\* hotels) is off at submission, the generated PDF has no flights section
\* (no hotel stays section).
C25_SwitchedOffSectionsAbsent ==
  (mode = "visibility" /\ pc = "done") =>
     /\ ~posted.showFlights => "flights" \notin sections
     /\ ~posted.showHotels => "stays" \notin sections

\* C26: distributeContentAcrossPages terminates: a day that does not fit
\* the rest of the current page fits the continuation page started for it,
\* so the loop places a day after at most one page creation, it runs at most
\* twice per day, and the days are distributed over at most one page more
\* than there are days.
C26_DistributionTerminates ==
  mode = "distribute" =>
    /\ creations <= 1
    /\ creations = 1 => dayHeights[dayIndex + 1] <= availableHeight
    /\ currentPageNum <= dayIndex + creations + 1
    /\ \A i \in 1..Len(dayHeights) :
         dayHeights[i] <= ContinuationAvailableHeight
    /\ pc = "done" => Len(placed) = Len(dayHeights)

\* a long itinerary has been distributed: the first day, whose text is
\* longer than the line limit, did not fit page 1 and was placed on page 2
C26_Witness ==
  /\ mode = "distribute" /\ pc = "done"
  /\ Len(placed) = MaxDistDays
  /\ placed[1] = 2
  /\ dayHeights[1] = CalculateDayHeight(LongTextLines)

\* the request has nothing wrong with it when a day's activities may be
\* blank as long as the day has subheadings
AdmissibleWithSubheadings(r) ==
  /\ r.body = "object" /\ r.defects = {}
  /\ Len(r.days) >= 1
  /\ \A i \in 1..Len(r.days) : r.days[i].activities \/ r.days[i].subheadings

\* C27: a request in which a day has subheadings and a blank activities text
\* passes validation and is rendered: activities are not required of a day
\* that has subheadings.
C27_SubheadingsSuppressActivities ==
  (AdmissibleWithSubheadings(request) /\ pc = "done") =>
     /\ response.status # 400
     /\ calls = <<"validateItineraryData", "sanitizeItineraryData",
                  "generateItineraryPDF">>

\* the lowest point of a draw call of the day renderer
LowestY(d) == IF d.kind = "image" THEN d.y - ImageHeight ELSE d.y

DayBlockKinds ==
  {"badge", "daytitle", "subtitle", "line", "hotel", "image", "divider",
   "vline"}

\* C28: nothing of a day block is drawn below the itinerary bottom margin of
\* 60: the closing divider of a day and the lower end of its accent rule, in
\* particular, are at Y >= 60.
C28_DayBlockAboveMargin ==
  (mode \in {"itinerary", "dayheight"} /\ lastDraw.kind \in DayBlockKinds) =>
     LowestY(lastDraw) >= FooterMarginBottom

\* C29: whatever the dayNumber fields of an admitted itinerary are, every
\* day is rendered with the image embedded from its own image field, and a
\* day without an image, or whose image failed to embed, with none.
C29_DayRenderedWithOwnImage ==
  \A i \in 1..Len(renderedWith) :
    renderedWith[i] = IF imgDays[i].image = "ok" THEN i ELSE NoImage

\* the words of a sequence of tokens, without the empty strings
WordsIn(tokens) == SelectSeq(tokens, IsWord)

\* while renderTextWithDynamicWidth runs, the lines drawn and the pending
\* line hold the words read so far; when it returns, and when the text of a
\* bullet item has been drawn, the lines drawn hold the words of the text
TextKeptByStep ==
  /\ pc' = "rtw_word" =>
       WordsIn(inked' \o curLine') = WordsIn(SubSeq(words', 1, wi' - 1))
  /\ (pc = "rtw_word" /\ pc' \in {"sub_end", "day_after_text"}) =>
       WordsIn(inked') = WordsIn(words)
  /\ (pc = "bl_text" /\ pc' # "bl_text") => WordsIn(inked') = WordsIn(words)

\* C30: no text is lost at a page break: for every bullet item and every day
\* description drawn by the paginating renderers, every word of the
\* sanitized text is drawn exactly once and in input order.
C30_NoTextLost == [][TextKeptByStep]_vars

\* a long description has been drawn over a page break in the middle of it
C30_Witness ==
  /\ pc \in {"sub_end", "day_after_text"}
  /\ Len(words) = RunLong
  /\ inked = words
  /\ pmPage > goldBarPage
  /\ "line" \in pageDraws
  /\ pageDraws \cap {"badge", "daytitle", "subtitle", "marker"} = {}

====
